---- MODULE Spec2Model ----
(***************************************************************************)
(* TVK Media Player: the video decode engine (VideoDecoder), the audio     *)
(* decode and playback engine (AudioDecoder, with the OpenAL source it     *)
(* drives) and the playback orchestrator (MediaPlayer).                    *)
(*                                                                         *)
(* Engines are records; every method is an operator from the engine        *)
(* record and the method's inputs to the engine record after the call and  *)
(* the returned value.  Times are integers: one unit is one packet         *)
(* duration, the stream time base is one unit.                             *)
(***************************************************************************)
EXTENDS Integers, Sequences, FiniteSets, TLC

VARIABLES
    dec,        \* the VideoDecoder under test
    ref,        \* a second VideoDecoder given the same calls except GetThumbnailAt
    out,        \* the VideoFrame the last call filled, when it was dec.DecodeNextFrame
    refOut,     \* the VideoFrame the last call filled, when it was ref.DecodeNextFrame
    thumb,      \* the VideoFrame the last call filled, when it was dec.GetThumbnailAt
    vcall,      \* the last VideoDecoder call: [op, ret, refRet]
    ad,         \* the AudioDecoder, including the OpenAL source it owns
    acall,      \* the last AudioDecoder call: [op, ret, arg]
    played,     \* the PCM chunks the device has played since the last Play
    pc,         \* per thread: position inside Seek / SelectAudioStream / Update
    decodeMutex,\* holder of AudioDecoder::_decodeMutex, or NoThread
    tl,         \* per thread: locals of the call in progress
    mp,         \* the MediaPlayer (owns _decoder, _thumbnailDecoder, _audioDecoder)
    pcall,      \* the last MediaPlayer call: [op, ret]
    fx,         \* the VideoEffects object
    tex,        \* the video texture handed to ProcessFrame
    fcall       \* the last VideoEffects call and the GPU commands it recorded

vars == <<dec, ref, out, refOut, thumb, vcall, ad, acall, played, pc, decodeMutex, tl, mp,
          pcall, fx, tex, fcall>>
videoVars == <<dec, ref, out, refOut, thumb, vcall>>
audioVars == <<ad, acall, played>>
threadVars == <<pc, decodeMutex, tl>>
playerVars == <<mp, pcall>>
effectsVars == <<fx, tex, fcall>>
nonVideoVars == <<audioVars, threadVars, playerVars, effectsVars>>

----------------------------------------------------------------------------
(* Bounds *)

MaxPackets == 3      \* packets per stream in a container
MaxDelay == 1        \* frames a codec holds back before it emits the first one
MaxSeek == 3         \* largest seek / thumbnail target time

----------------------------------------------------------------------------
(* Containers.  A file holds n packets for each of its streams, interleaved *)
(* stream by stream: packet number i (from 0) belongs to stream i % S and   *)
(* carries pts i \div S.  Video packets are key frames every GopSize.       *)

GopSize == 2

Layouts == { <<"video">>, <<"audio">>, <<"video", "audio", "audio">> }

MkFile(streams, n, delay, reject, hasPts) ==
    [ streams |-> streams, n |-> n, delay |-> delay,
      reject |-> reject,        \* pts of packets the codec rejects on send
      hasPts |-> hasPts,        \* FALSE: frames carry AV_NOPTS_VALUE
      chunk |-> 65536 ]         \* bytes of PCM one audio packet resamples to

Files ==
    { MkFile(l, n, d, {}, TRUE) : l \in Layouts, n \in 1..MaxPackets, d \in 0..MaxDelay }
      \cup { MkFile(<<"video">>, MaxPackets, 0, {1}, TRUE),
             MkFile(<<"video">>, MaxPackets, 0, {}, FALSE) }

NoFile == MkFile(<<>>, 0, 0, {}, TRUE)

FrameWidth == 4
FrameHeight == 2
FrameRate == 1

NumStreams(f) == Len(f.streams)
NumPackets(f) == f.n * NumStreams(f)
PacketStream(f, i) == i % NumStreams(f)
PacketPts(f, i) == i \div NumStreams(f)

StreamsOfType(f, ty) == { s \in 0..(NumStreams(f) - 1) : f.streams[s + 1] = ty }

Min(S) == CHOOSE x \in S : \A y \in S : x <= y
Max(S) == CHOOSE x \in S : \A y \in S : x >= y

\* av_seek_frame(ctx, stream, ts, AVSEEK_FLAG_BACKWARD): the read position
\* moves to the last key packet of the stream whose pts is <= ts; -1 when
\* there is none.
IsKey(f, s, k) == IF f.streams[s + 1] = "video" THEN k % GopSize = 0 ELSE TRUE

SeekTarget(f, s, ts) ==
    LET cand == { k \in 0..(f.n - 1) : k <= ts /\ IsKey(f, s, k) }
    IN  IF cand = {} THEN -1 ELSE Max(cand) * NumStreams(f) + s

----------------------------------------------------------------------------
(* VideoDecoder *)

HWAccelConfigs == <<"VAAPI", "CUDA">>     \* g_hwAccelConfigs of the Linux build
HWNames == { HWAccelConfigs[i] : i \in 1..Len(HWAccelConfigs) }

ClosedDecoder ==
    [ formatContext |-> FALSE, file |-> NoFile, pos |-> 0,
      codecContext |-> FALSE, codecBuf |-> <<>>,
      videoStream |-> FALSE, videoStreamIndex |-> -1,
      swsContext |-> FALSE, swsSourceFormat |-> "none",
      swsSourceWidth |-> 0, swsSourceHeight |-> 0,
      frame |-> FALSE, swFrame |-> FALSE, packet |-> FALSE,
      hwDeviceCtx |-> FALSE, hwAccelType |-> "None", hwPixelFormat |-> "none",
      xferFail |-> {},
      width |-> 0, height |-> 0, fps |-> 0, duration |-> 0, currentTime |-> 0 ]

NoFrame == [ width |-> 0, height |-> 0, size |-> 0, timestamp |-> 0, pts |-> -1 ]

IsOpen(d) == d.formatContext

\* The native objects Cleanup releases: those whose pointer is not null.
Released(d) ==
    { o \in { "swsContext", "frame", "swFrame", "packet", "codecContext",
              "hwDeviceCtx", "formatContext" } : d[o] }

\* Cleanup freeing _frame without setting the pointer to null.
Cleanup_FrameNotNulled(d) ==
    [ d EXCEPT !.swsContext = FALSE, !.swFrame = FALSE, !.packet = FALSE,
               !.codecContext = FALSE, !.codecBuf = <<>>, !.hwDeviceCtx = FALSE,
               !.formatContext = FALSE, !.file = NoFile, !.pos = 0,
               !.videoStream = FALSE, !.videoStreamIndex = -1,
               !.width = 0, !.height = 0, !.fps = 0, !.duration = 0, !.currentTime = 0,
               !.hwAccelType = "None", !.hwPixelFormat = "none", !.xferFail = {},
               !.swsSourceFormat = "none", !.swsSourceWidth = 0, !.swsSourceHeight = 0 ]

Cleanup(d) ==
    [ d EXCEPT !.swsContext = FALSE, !.frame = FALSE, !.swFrame = FALSE, !.packet = FALSE,
               !.codecContext = FALSE, !.codecBuf = <<>>, !.hwDeviceCtx = FALSE,
               !.formatContext = FALSE, !.file = NoFile, !.pos = 0,
               !.videoStream = FALSE, !.videoStreamIndex = -1,
               !.width = 0, !.height = 0, !.fps = 0, !.duration = 0, !.currentTime = 0,
               !.hwAccelType = "None", !.hwPixelFormat = "none", !.xferFail = {},
               !.swsSourceFormat = "none", !.swsSourceWidth = 0, !.swsSourceHeight = 0 ]

Close(d) == Cleanup(d)

\* The environment of one Open call: the step that fails (or "none"), the
\* hardware configs the codec lists, the device types that can be created,
\* and the frames whose hardware surface cannot be transferred.
OpenFailures == { "none", "open_input", "stream_info", "no_codec", "alloc_context",
                  "parameters", "open2", "alloc_frame" }

OpenEnv(fail, listed, creatable, xferFail) ==
    [ fail |-> fail, hwListed |-> listed, hwCreatable |-> creatable, xferFail |-> xferFail ]

SoftwareEnv == OpenEnv("none", {}, {}, {})

HardwareEnvs ==
    { OpenEnv("none", l, c, {}) : l \in SUBSET HWNames, c \in { {}, { "CUDA" }, HWNames } }
        \cup { OpenEnv("none", HWNames, HWNames, {0}) }

FailingEnvs ==
    { OpenEnv(fl, l, HWNames, {}) : fl \in OpenFailures \ { "none" }, l \in { {}, HWNames } }

InitHardwareDecoder(d, e) ==
    LET usable == { i \in 1..Len(HWAccelConfigs) :
                      HWAccelConfigs[i] \in e.hwListed /\ HWAccelConfigs[i] \in e.hwCreatable }
    IN  IF usable = {}
        THEN [ d |-> d, ret |-> FALSE ]
        ELSE [ d |-> [ d EXCEPT !.hwDeviceCtx = TRUE,
                                !.hwAccelType = HWAccelConfigs[Min(usable)],
                                !.hwPixelFormat = "hw",
                                !.xferFail = e.xferFail ],
               ret |-> TRUE ]

FirstVideoStream(f) ==
    IF StreamsOfType(f, "video") = {} THEN -1 ELSE Min(StreamsOfType(f, "video"))

\* Open with a failed hardware probe treated as an error instead of the
\* fall-back to software decode of lines 162-165.
Open_HardwareRequired(d, f, e) ==
    LET c0 == Close(d)
        failed(x) == [ d |-> Close(x), ret |-> FALSE ]
        c1 == [ c0 EXCEPT !.formatContext = TRUE, !.file = f, !.pos = 0 ]
        c2 == [ c1 EXCEPT !.videoStreamIndex = FirstVideoStream(f),
                          !.videoStream = (FirstVideoStream(f) # -1) ]
        c3 == [ c2 EXCEPT !.codecContext = TRUE ]
        hw == InitHardwareDecoder(c3, e)
        c4 == hw.d
        c5 == [ c4 EXCEPT !.width = FrameWidth, !.height = FrameHeight,
                          !.fps = FrameRate, !.duration = f.n ]
        c6 == [ c5 EXCEPT !.frame = (e.fail # "alloc_frame"),
                          !.swFrame = TRUE, !.packet = TRUE ]
    IN  IF e.fail = "open_input" THEN [ d |-> c0, ret |-> FALSE ]
        ELSE IF e.fail = "stream_info" THEN failed(c1)
        ELSE IF c2.videoStreamIndex = -1 THEN failed(c2)
        ELSE IF e.fail = "no_codec" THEN failed(c2)
        ELSE IF e.fail = "alloc_context" THEN failed(c2)
        ELSE IF e.fail = "parameters" THEN failed(c3)
        ELSE IF e.hwListed # {} /\ ~hw.ret THEN failed(c3)
        ELSE IF e.fail = "open2" THEN failed(c4)
        ELSE IF ~(c6.frame /\ c6.swFrame /\ c6.packet) THEN failed(c6)
        ELSE [ d |-> [ c6 EXCEPT !.currentTime = 0 ], ret |-> TRUE ]

\* Open with the Close() of line 169 left out: a failing avcodec_open2
\* returns false with the engine half open.
Open_NoCloseOnCodecFailure(d, f, e) ==
    LET c0 == Close(d)
        failed(x) == [ d |-> Close(x), ret |-> FALSE ]
        c1 == [ c0 EXCEPT !.formatContext = TRUE, !.file = f, !.pos = 0 ]
        c2 == [ c1 EXCEPT !.videoStreamIndex = FirstVideoStream(f),
                          !.videoStream = (FirstVideoStream(f) # -1) ]
        c3 == [ c2 EXCEPT !.codecContext = TRUE ]
        hw == InitHardwareDecoder(c3, e)
        c4 == IF hw.ret THEN hw.d ELSE [ hw.d EXCEPT !.hwAccelType = "None" ]
        c5 == [ c4 EXCEPT !.width = FrameWidth, !.height = FrameHeight,
                          !.fps = FrameRate, !.duration = f.n ]
        c6 == [ c5 EXCEPT !.frame = (e.fail # "alloc_frame"),
                          !.swFrame = TRUE, !.packet = TRUE ]
    IN  IF e.fail = "open_input" THEN [ d |-> c0, ret |-> FALSE ]
        ELSE IF e.fail = "stream_info" THEN failed(c1)
        ELSE IF c2.videoStreamIndex = -1 THEN failed(c2)
        ELSE IF e.fail = "no_codec" THEN failed(c2)
        ELSE IF e.fail = "alloc_context" THEN failed(c2)
        ELSE IF e.fail = "parameters" THEN failed(c3)
        ELSE IF e.fail = "open2" THEN [ d |-> c4, ret |-> FALSE ]
        ELSE IF ~(c6.frame /\ c6.swFrame /\ c6.packet) THEN failed(c6)
        ELSE [ d |-> [ c6 EXCEPT !.currentTime = 0 ], ret |-> TRUE ]

Open(d, f, e) ==
    LET c0 == Close(d)
        failed(x) == [ d |-> Close(x), ret |-> FALSE ]
        c1 == [ c0 EXCEPT !.formatContext = TRUE, !.file = f, !.pos = 0 ]
        c2 == [ c1 EXCEPT !.videoStreamIndex = FirstVideoStream(f),
                          !.videoStream = (FirstVideoStream(f) # -1) ]
        c3 == [ c2 EXCEPT !.codecContext = TRUE ]
        hw == InitHardwareDecoder(c3, e)
        c4 == IF hw.ret THEN hw.d ELSE [ hw.d EXCEPT !.hwAccelType = "None" ]
        c5 == [ c4 EXCEPT !.width = FrameWidth, !.height = FrameHeight,
                          !.fps = FrameRate, !.duration = f.n ]
        c6 == [ c5 EXCEPT !.frame = (e.fail # "alloc_frame"),
                          !.swFrame = TRUE, !.packet = TRUE ]
    IN  IF e.fail = "open_input" THEN [ d |-> c0, ret |-> FALSE ]
        ELSE IF e.fail = "stream_info" THEN failed(c1)
        ELSE IF c2.videoStreamIndex = -1 THEN failed(c2)
        ELSE IF e.fail = "no_codec" THEN failed(c2)
        ELSE IF e.fail = "alloc_context" THEN failed(c2)
        ELSE IF e.fail = "parameters" THEN failed(c3)
        ELSE IF e.fail = "open2" THEN failed(c4)
        ELSE IF ~(c6.frame /\ c6.swFrame /\ c6.packet) THEN failed(c6)
        ELSE [ d |-> [ c6 EXCEPT !.currentTime = 0 ], ret |-> TRUE ]

\* avcodec_send_packet followed by one avcodec_receive_frame: the codec
\* queues the packet and emits its oldest frame once it holds more than
\* `delay` of them; otherwise it reports EAGAIN.
CodecEmits(f, buf) == Len(buf) > f.delay

FrameFormat(d) == IF d.hwAccelType # "None" THEN d.hwPixelFormat ELSE "yuv420p"

\* TransferHWFrame: FALSE when av_hwframe_transfer_data fails.
TransferHWFrame(d, pts) == FrameFormat(d) = d.hwPixelFormat /\ pts \notin d.xferFail

\* Lines 247-306 of DecodeNextFrame: the frame `pts` has been received.
ConvertFrame(d, o, pts, swsOk) ==
    LET viaHw == d.hwAccelType # "None" /\ FrameFormat(d) = d.hwPixelFormat
        srcFormat == IF viaHw THEN "nv12" ELSE FrameFormat(d)
        ts == IF d.file.hasPts THEN pts ELSE d.currentTime
        o1 == [ width |-> d.width, height |-> d.height, size |-> d.width * d.height * 4,
                timestamp |-> ts, pts |-> o.pts ]
        d1 == [ d EXCEPT !.currentTime = ts ]
        rebuild == ~d1.swsContext \/ d1.swsSourceFormat # srcFormat
                     \/ d1.swsSourceWidth # FrameWidth \/ d1.swsSourceHeight # FrameHeight
        d2 == IF rebuild
              THEN [ d1 EXCEPT !.swsContext = swsOk, !.swsSourceFormat = srcFormat,
                               !.swsSourceWidth = FrameWidth, !.swsSourceHeight = FrameHeight ]
              ELSE d1
    IN  IF ~d2.swsContext
        THEN [ d |-> d2, ret |-> FALSE, out |-> [ o1 EXCEPT !.pts = -1 ] ]
        ELSE [ d |-> d2, ret |-> TRUE, out |-> [ o1 EXCEPT !.pts = pts ] ]

RECURSIVE DecodeLoop(_, _, _)
DecodeLoop(d, o, swsOk) ==
    IF d.pos >= NumPackets(d.file)
    THEN [ d |-> d, ret |-> FALSE, out |-> o ]
    ELSE LET i == d.pos
             pts == PacketPts(d.file, i)
             d1 == [ d EXCEPT !.pos = i + 1 ]
             buf == Append(d.codecBuf, pts)
             d2 == [ d1 EXCEPT !.codecBuf = Tail(buf) ]
         IN  IF PacketStream(d.file, i) # d.videoStreamIndex
             THEN DecodeLoop(d1, o, swsOk)
             ELSE IF pts \in d.file.reject
             THEN [ d |-> d1, ret |-> FALSE, out |-> o ]
             ELSE IF ~CodecEmits(d.file, buf)
             THEN DecodeLoop([ d1 EXCEPT !.codecBuf = buf ], o, swsOk)
             ELSE IF d.hwAccelType # "None" /\ FrameFormat(d) = d.hwPixelFormat
                     /\ ~TransferHWFrame(d, Head(buf))
             THEN DecodeLoop(d2, o, swsOk)
             ELSE ConvertFrame(d2, o, Head(buf), swsOk)

DecodeNextFrame(d, o, swsOk) ==
    IF ~d.formatContext \/ ~d.codecContext
    THEN [ d |-> d, ret |-> FALSE, out |-> o ]
    ELSE DecodeLoop(d, o, swsOk)

\* Seek with the flush and the cursor update moved before the result of
\* av_seek_frame is looked at.
Seek_FlushBeforeCheck(d, timeSeconds, seekOk) ==
    LET target == SeekTarget(d.file, d.videoStreamIndex, timeSeconds)
        d0 == [ d EXCEPT !.codecBuf = <<>>, !.currentTime = timeSeconds ]
        d1 == [ d0 EXCEPT !.pos = target ]
    IN  IF ~d.formatContext \/ ~d.videoStream
        THEN [ d |-> d, ret |-> FALSE ]
        ELSE IF ~seekOk \/ target = -1
        THEN [ d |-> d0, ret |-> FALSE ]
        ELSE [ d |-> IF d1.swsContext
                     THEN [ d1 EXCEPT !.swsContext = FALSE, !.swsSourceFormat = "none",
                                      !.swsSourceWidth = 0, !.swsSourceHeight = 0 ]
                     ELSE d1,
               ret |-> TRUE ]

\* Seek without lines 325-331: the cached conversion context is kept.
Seek_KeepsConverter(d, timeSeconds, seekOk) ==
    LET target == SeekTarget(d.file, d.videoStreamIndex, timeSeconds)
        d1 == [ d EXCEPT !.pos = target, !.codecBuf = <<>>, !.currentTime = timeSeconds ]
    IN  IF ~d.formatContext \/ ~d.videoStream
        THEN [ d |-> d, ret |-> FALSE ]
        ELSE IF ~seekOk \/ target = -1
        THEN [ d |-> d, ret |-> FALSE ]
        ELSE [ d |-> d1, ret |-> TRUE ]

Seek(d, timeSeconds, seekOk) ==
    LET target == SeekTarget(d.file, d.videoStreamIndex, timeSeconds)
        d1 == [ d EXCEPT !.pos = target, !.codecBuf = <<>>, !.currentTime = timeSeconds ]
    IN  IF ~d.formatContext \/ ~d.videoStream
        THEN [ d |-> d, ret |-> FALSE ]
        ELSE IF ~seekOk \/ target = -1
        THEN [ d |-> d, ret |-> FALSE ]
        ELSE [ d |-> IF d1.swsContext
                     THEN [ d1 EXCEPT !.swsContext = FALSE, !.swsSourceFormat = "none",
                                      !.swsSourceWidth = 0, !.swsSourceHeight = 0 ]
                     ELSE d1,
               ret |-> TRUE ]

GetCurrentTime(d) == d.currentTime

THUMB_ATTEMPTS == 50

\* The read loop of GetThumbnailAt (lines 357-374): got is the pts of the
\* frame received, -1 when the loop ends without one.
RECURSIVE ThumbLoop(_, _)
ThumbLoop(d, attempts) ==
    IF attempts >= THUMB_ATTEMPTS \/ d.pos >= NumPackets(d.file)
    THEN [ d |-> d, got |-> -1 ]
    ELSE LET i == d.pos
             pts == PacketPts(d.file, i)
             d1 == [ d EXCEPT !.pos = i + 1 ]
             buf == Append(d.codecBuf, pts)
         IN  IF PacketStream(d.file, i) # d.videoStreamIndex \/ pts \in d.file.reject
             THEN ThumbLoop(d1, attempts + 1)
             ELSE IF ~CodecEmits(d.file, buf)
             THEN ThumbLoop([ d1 EXCEPT !.codecBuf = buf ], attempts + 1)
             ELSE [ d |-> [ d1 EXCEPT !.codecBuf = Tail(buf) ], got |-> Head(buf) ]

\* Lines 390-396: float aspect = w / h; thumbH = (int)(maxWidth / aspect) ...
ThumbSize(w, h, maxWidth, maxHeight) ==
    LET th == (maxWidth * h) \div w
    IN  IF th > maxHeight
        THEN [ w |-> (maxHeight * w) \div h, h |-> maxHeight ]
        ELSE [ w |-> maxWidth, h |-> th ]

\* thumbW * thumbH * 4 of line 413, an int expression: the product wraps at
\* 32 bits (pixels is below 2^31).
RgbaBytes(pixels) ==
    LET r == pixels % 1073741824
    IN  IF r < 536870912 THEN r * 4 ELSE (r - 1073741824) * 4

ThumbEnv(seekOk, allocOk, swsOk) == [ seekOk |-> seekOk, allocOk |-> allocOk, swsOk |-> swsOk ]

ThumbEnvs == { ThumbEnv(TRUE, TRUE, TRUE), ThumbEnv(FALSE, TRUE, TRUE),
               ThumbEnv(TRUE, FALSE, TRUE), ThumbEnv(TRUE, TRUE, FALSE) }

GetThumbnailAt(d, o, timeSeconds, maxWidth, maxHeight, e) ==
    LET target == SeekTarget(d.file, d.videoStreamIndex, timeSeconds)
        d1 == [ d EXCEPT !.pos = target, !.codecBuf = <<>> ]
        lp == ThumbLoop(d1, 0)
        viaHw == d.hwAccelType # "None" /\ FrameFormat(d) = d.hwPixelFormat
        transferred == viaHw /\ lp.got \notin d.xferFail
        sz == ThumbSize(d.width, d.height, maxWidth, maxHeight)
        thumbSws == e.swsOk /\ (viaHw => transferred) /\ sz.w >= 1 /\ sz.h >= 1
    IN  IF ~d.formatContext \/ ~d.videoStream \/ ~d.codecContext
        THEN [ d |-> d, ret |-> FALSE, out |-> o ]
        ELSE IF ~e.seekOk \/ target = -1
        THEN [ d |-> d, ret |-> FALSE, out |-> o ]
        ELSE IF ~e.allocOk
        THEN [ d |-> d1, ret |-> FALSE, out |-> o ]
        ELSE IF lp.got = -1 \/ ~thumbSws
        THEN [ d |-> lp.d, ret |-> FALSE, out |-> o ]
        ELSE IF RgbaBytes(sz.w * sz.h) < 0    \* resize throws std::length_error
        THEN [ d |-> lp.d, ret |-> FALSE, out |-> [ o EXCEPT !.width = sz.w, !.height = sz.h ] ]
        ELSE [ d |-> lp.d, ret |-> TRUE,
               out |-> [ width |-> sz.w, height |-> sz.h, size |-> RgbaBytes(sz.w * sz.h),
                         timestamp |-> timeSeconds, pts |-> lp.got ] ]

----------------------------------------------------------------------------
(* AudioDecoder and the OpenAL source it streams into *)

NUM_BUFFERS == 4
BUFFER_SIZE == 65536

MaxAudioPackets == 5     \* packets per stream in the longest audio file
MaxQueued == 8           \* calls that refill the ring are explored up to this queue length

StreamSampleRate == 48000
StreamChannels == 6

AudioFile(streams, n, delay, chunk) == [ MkFile(streams, n, delay, {}, TRUE) EXCEPT !.chunk = chunk ]

ShortFile == AudioFile(<<"audio">>, 2, 0, 65536)                       \* less than a ring of audio
TwoTrackFile == AudioFile(<<"video", "audio", "audio">>, MaxAudioPackets, 0, 65536)
DelayFile == AudioFile(<<"audio">>, MaxAudioPackets, MaxDelay, 40000)
SilentFile == AudioFile(<<"video">>, 1, 0, 65536)                      \* no audio stream

AudioFiles == { ShortFile, TwoTrackFile, DelayFile, SilentFile }

NewAudioDecoder ==
    [ formatContext |-> FALSE, file |-> NoFile, pos |-> 0,
      codecContext |-> FALSE, codecBuf |-> <<>>,
      audioStream |-> FALSE, audioStreamIndex |-> -1,
      swrContext |-> FALSE, frame |-> FALSE, packet |-> FALSE,
      availableAudioStreamIndices |-> <<>>, availableAudioStreamNames |-> <<>>,
      sampleRate |-> 0, channels |-> 0, duration |-> 0, currentTime |-> 0,
      volume |-> 100,
      alDevice |-> FALSE, alContext |-> FALSE, alSource |-> FALSE, alBuffers |-> FALSE,
      isPlaying |-> FALSE, hasAudio |-> FALSE,
      \* the OpenAL source: its state, its queue of buffer names, the number
      \* of queued buffers it has played, its gain, and each buffer's PCM
      srcState |-> "AL_INITIAL", queue |-> <<>>, cur |-> 0, gain |-> 100,
      bufData |-> [ b \in 1..NUM_BUFFERS |-> <<>> ],
      \* a null decode object has been dereferenced
      fault |-> FALSE ]

HasAudio(a) == a.hasAudio
IsPlaying(a) == a.isPlaying
GetSelectedAudioStreamIndex(a) == a.audioStreamIndex

\* alGetSourcei(AL_BUFFERS_PROCESSED)
BuffersProcessed(a) ==
    IF a.srcState = "AL_INITIAL" THEN 0
    ELSE IF a.srcState = "AL_STOPPED" THEN Len(a.queue)
    ELSE a.cur

\* Play restarts a playing or stopped source at the head of its queue and
\* resumes a paused one; with nothing queued the source ends up stopped.
alSourcePlay(a) ==
    IF a.queue = <<>>
    THEN [ a EXCEPT !.srcState = "AL_STOPPED", !.cur = 0 ]
    ELSE [ a EXCEPT !.srcState = "AL_PLAYING",
                    !.cur = IF a.srcState = "AL_PAUSED" THEN a.cur ELSE 0 ]

alSourcePause(a) ==
    IF a.srcState = "AL_PLAYING" THEN [ a EXCEPT !.srcState = "AL_PAUSED" ] ELSE a

\* Stop applied to an AL_INITIAL source is a legal no-op.
alSourceStop(a) ==
    IF a.srcState = "AL_INITIAL" THEN a ELSE [ a EXCEPT !.srcState = "AL_STOPPED" ]

\* alSourceUnqueueBuffers(source, 1, &buf): removes the head of the queue when
\* it has been processed, and fails without effect otherwise (buf = 0).
alSourceUnqueueBuffers(a) ==
    IF BuffersProcessed(a) >= 1
    THEN [ a |-> [ a EXCEPT !.queue = Tail(a.queue),
                            !.cur = IF a.cur > 0 THEN a.cur - 1 ELSE 0 ],
           buf |-> Head(a.queue) ]
    ELSE [ a |-> a, buf |-> 0 ]

alSourceQueueBuffers(a, b) == [ a EXCEPT !.queue = Append(a.queue, b) ]

\* alBufferData fails with AL_INVALID_OPERATION on a buffer that is queued.
alBufferData(a, b, data) ==
    IF \E i \in 1..Len(a.queue) : a.queue[i] = b
    THEN a
    ELSE [ a EXCEPT !.bufData[b] = data ]

\* while (queued-- > 0) alSourceUnqueueBuffers(_alSource, 1, &buf);
RECURSIVE UnqueueAll(_, _)
UnqueueAll(a, queued) ==
    IF queued <= 0 THEN a ELSE UnqueueAll(alSourceUnqueueBuffers(a).a, queued - 1)

\* InitOpenAL without the alSourcef of line 114: the new source keeps
\* OpenAL's initial gain of 1.0.
InitOpenAL_InitialGain(a, ok) ==
    IF ~ok
    THEN [ a |-> a, ret |-> FALSE ]
    ELSE [ a |-> [ a EXCEPT !.alDevice = TRUE, !.alContext = TRUE, !.alBuffers = TRUE,
                            !.alSource = TRUE, !.srcState = "AL_INITIAL", !.queue = <<>>,
                            !.cur = 0, !.gain = 100,
                            !.bufData = [ b \in 1..NUM_BUFFERS |-> <<>> ] ],
           ret |-> TRUE ]

InitOpenAL(a, ok) ==
    IF ~ok
    THEN [ a |-> a, ret |-> FALSE ]
    ELSE [ a |-> [ a EXCEPT !.alDevice = TRUE, !.alContext = TRUE, !.alBuffers = TRUE,
                            !.alSource = TRUE, !.srcState = "AL_INITIAL", !.queue = <<>>,
                            !.cur = 0, !.gain = a.volume,
                            !.bufData = [ b \in 1..NUM_BUFFERS |-> <<>> ] ],
           ret |-> TRUE ]

CleanupOpenAL(a) ==
    LET a1 == IF a.alSource
              THEN [ UnqueueAll(alSourceStop(a), Len(a.queue)) EXCEPT
                         !.alSource = FALSE, !.srcState = "AL_INITIAL", !.queue = <<>>,
                         !.cur = 0, !.gain = 100 ]
              ELSE a
        a2 == IF a1.alBuffers
              THEN [ a1 EXCEPT !.alBuffers = FALSE,
                               !.bufData = [ b \in 1..NUM_BUFFERS |-> <<>> ] ]
              ELSE a1
    IN  [ a2 EXCEPT !.alContext = FALSE, !.alDevice = FALSE ]

AudioCleanup(a) ==
    [ CleanupOpenAL(a) EXCEPT
          !.swrContext = FALSE, !.frame = FALSE, !.packet = FALSE,
          !.codecContext = FALSE, !.codecBuf = <<>>,
          !.formatContext = FALSE, !.file = NoFile, !.pos = 0,
          !.audioStream = FALSE, !.audioStreamIndex = -1,
          !.sampleRate = 0, !.channels = 0, !.duration = 0, !.currentTime = 0,
          !.hasAudio = FALSE, !.isPlaying = FALSE ]

\* SetVolume; volumes are held in hundredths.
SetVolume(a, volume) ==
    LET v == IF volume < 0 THEN 0 ELSE IF volume > 100 THEN 100 ELSE volume
    IN  [ a EXCEPT !.volume = v, !.gain = IF a.alSource THEN v ELSE @ ]

GetVolume(a) == a.volume

GetAvailableAudioStreamIndices(a) == a.availableAudioStreamIndices

GetAvailableAudioStreamNames(a) == a.availableAudioStreamNames

\* Play without the test of line 445.
Play_Unguarded(a) == [ alSourcePlay(a) EXCEPT !.isPlaying = TRUE ]

Play(a) ==
    IF ~a.hasAudio THEN a ELSE [ alSourcePlay(a) EXCEPT !.isPlaying = TRUE ]

Pause(a) ==
    IF ~a.hasAudio THEN a ELSE [ alSourcePause(a) EXCEPT !.isPlaying = FALSE ]

Stop(a) ==
    IF ~a.hasAudio THEN a ELSE [ alSourceStop(a) EXCEPT !.isPlaying = FALSE ]

AudioClose(a) == AudioCleanup(Stop(a))

\* DecodeAudioPacket: data is the pts of the chunk decoded, size its bytes.
\* Reading into a null packet, or sending to a null codec context,
\* receiving into a null frame or converting with a null resampler, faults.
RECURSIVE DecodeAudioPacket(_)
DecodeAudioPacket(a) ==
    IF ~a.packet
    THEN [ a |-> [ a EXCEPT !.fault = TRUE ], ret |-> FALSE, data |-> -1 ]
    ELSE IF a.pos >= NumPackets(a.file)
    THEN [ a |-> a, ret |-> FALSE, data |-> -1 ]
    ELSE LET i == a.pos
             pts == PacketPts(a.file, i)
             a1 == [ a EXCEPT !.pos = i + 1 ]
             buf == Append(a.codecBuf, pts)
         IN  IF PacketStream(a.file, i) # a.audioStreamIndex
             THEN DecodeAudioPacket(a1)
             ELSE IF ~a.codecContext
             THEN [ a |-> [ a1 EXCEPT !.fault = TRUE ], ret |-> FALSE, data |-> -1 ]
             ELSE IF pts \in a.file.reject
             THEN [ a |-> a1, ret |-> FALSE, data |-> -1 ]
             ELSE IF ~a.frame
             THEN [ a |-> [ a1 EXCEPT !.fault = TRUE ], ret |-> FALSE, data |-> -1 ]
             ELSE IF ~CodecEmits(a.file, buf)
             THEN DecodeAudioPacket([ a1 EXCEPT !.codecBuf = buf ])
             ELSE IF ~a.swrContext
             THEN [ a |-> [ a1 EXCEPT !.fault = TRUE ], ret |-> FALSE, data |-> -1 ]
             ELSE [ a |-> [ a1 EXCEPT !.codecBuf = Tail(buf),
                                      !.currentTime = IF a.file.hasPts THEN Head(buf) ELSE @ ],
                    ret |-> TRUE, data |-> Head(buf) ]

\* The loop of FillBuffer (lines 417-423).
RECURSIVE FillLoop(_, _, _)
FillLoop(a, combinedData, totalSize) ==
    IF totalSize >= BUFFER_SIZE
    THEN [ a |-> a, data |-> combinedData ]
    ELSE LET r == DecodeAudioPacket(a)
         IN  IF ~r.ret
             THEN [ a |-> r.a, data |-> combinedData ]
             ELSE FillLoop(r.a, Append(combinedData, r.data), totalSize + a.file.chunk)

FillBuffer(a, buffer) ==
    LET r == FillLoop(a, <<>>, 0)
    IN  IF r.data = <<>>
        THEN [ a |-> r.a, ret |-> FALSE ]
        ELSE [ a |-> alBufferData(r.a, buffer, r.data), ret |-> TRUE ]

RECURSIVE QueueFrom(_, _)
QueueFrom(a, i) ==
    IF i > NUM_BUFFERS
    THEN a
    ELSE LET r == FillBuffer(a, i)
         IN  IF ~r.ret \/ r.a.fault THEN r.a ELSE QueueFrom(alSourceQueueBuffers(r.a, i), i + 1)

QueueBuffers(a) == QueueFrom(a, 1)


OutChannels(ch) == IF ch > 2 THEN 2 ELSE ch

AudioStreamsOf(f) ==
    LET RECURSIVE Collect(_)
        Collect(i) ==
            IF i >= NumStreams(f) THEN <<>>
            ELSE IF f.streams[i + 1] = "audio" THEN <<i>> \o Collect(i + 1)
            ELSE Collect(i + 1)
    IN  Collect(0)

AudioOpenFailures == { "none", "open_input", "stream_info", "no_codec", "alloc_context",
                       "parameters", "open2", "swr", "alloc_frame", "openal" }

AudioOpen(a, f, fail) ==
    LET c0 == AudioClose(a)
        failed(x) == [ a |-> AudioClose(x), ret |-> FALSE ]
        c1 == [ c0 EXCEPT !.formatContext = TRUE, !.file = f, !.pos = 0 ]
        idx == AudioStreamsOf(f)
        c2 == [ c1 EXCEPT !.availableAudioStreamIndices = idx,
                          !.availableAudioStreamNames = [ i \in 1..Len(idx) |-> "audio" ],
                          !.audioStreamIndex = IF idx = <<>> THEN -1 ELSE idx[1],
                          !.audioStream = (idx # <<>>) ]
        c3 == [ c2 EXCEPT !.codecContext = TRUE ]
        c4 == [ c3 EXCEPT !.sampleRate = StreamSampleRate, !.channels = StreamChannels ]
        c5 == [ c4 EXCEPT !.swrContext = (fail # "swr") ]
        c6 == [ c5 EXCEPT !.channels = OutChannels(StreamChannels), !.duration = f.n,
                          !.frame = (fail # "alloc_frame"), !.packet = TRUE ]
        al == InitOpenAL(c6, fail # "openal")
        c7 == [ al.a EXCEPT !.currentTime = 0, !.hasAudio = TRUE ]
    IN  IF fail = "open_input" THEN [ a |-> c0, ret |-> FALSE ]
        ELSE IF fail = "stream_info" THEN failed(c1)
        ELSE IF c2.audioStreamIndex = -1 THEN failed(c2)
        ELSE IF fail = "no_codec" THEN failed(c2)
        ELSE IF fail = "alloc_context" THEN failed(c2)
        ELSE IF fail = "parameters" THEN failed(c3)
        ELSE IF fail = "open2" THEN failed(c3)
        ELSE IF ~c5.swrContext THEN failed(c5)
        ELSE IF ~(c6.frame /\ c6.packet) THEN failed(c6)
        ELSE IF ~al.ret THEN failed(al.a)
        ELSE [ a |-> QueueBuffers(c7), ret |-> TRUE ]

\* avcodec_flush_buffers on the engine's codec context; a null context faults.
FlushCodec(a) ==
    IF a.codecContext THEN [ a EXCEPT !.codecBuf = <<>> ] ELSE [ a EXCEPT !.fault = TRUE ]

\* Seek, lines 470-477: stop the source and unqueue what it holds.
SeekDrain(a) == UnqueueAll(alSourceStop(a), Len(alSourceStop(a).queue))

\* Seek, lines 479-494, entered with the source drained.
SeekRefill(a, timeSeconds, seekOk, was_playing) ==
    LET target == SeekTarget(a.file, a.audioStreamIndex, timeSeconds)
        a1 == FlushCodec([ a EXCEPT !.pos = target ])
        a2 == QueueBuffers([ a1 EXCEPT !.currentTime = timeSeconds ])
    IN  IF ~seekOk \/ target = -1
        THEN [ a |-> a, ret |-> FALSE ]
        ELSE IF a1.fault THEN [ a |-> a1, ret |-> FALSE ]
        ELSE IF a2.fault THEN [ a |-> a2, ret |-> FALSE ]
        ELSE [ a |-> IF was_playing THEN [ alSourcePlay(a2) EXCEPT !.isPlaying = TRUE ] ELSE a2,
               ret |-> TRUE ]

AudioSeek(a, timeSeconds, seekOk) ==
    IF ~a.formatContext \/ ~a.audioStream
    THEN [ a |-> a, ret |-> FALSE ]
    ELSE SeekRefill(SeekDrain(a), timeSeconds, seekOk, a.isPlaying)

\* Update, lines 504-514, with processed read at line 505.
RECURSIVE UpdateRefill(_, _)
UpdateRefill(a, processed) ==
    IF processed <= 0 \/ a.fault
    THEN a
    ELSE LET u == alSourceUnqueueBuffers(a)
             r == FillBuffer(u.a, u.buf)
         IN  UpdateRefill(IF r.ret /\ ~r.a.fault THEN alSourceQueueBuffers(r.a, u.buf) ELSE r.a,
                          processed - 1)

\* Update, lines 516-524, with the source state read at line 502.
UpdateRestart(a, state) ==
    IF state # "AL_PLAYING" /\ a.isPlaying
    THEN IF Len(a.queue) > 0 THEN alSourcePlay(a) ELSE [ a EXCEPT !.isPlaying = FALSE ]
    ELSE a

Update(a) ==
    IF ~a.hasAudio \/ ~a.isPlaying
    THEN a
    ELSE LET a1 == UpdateRefill(a, BuffersProcessed(a))
         IN  IF a1.fault THEN a1 ELSE UpdateRestart(a1, a.srcState)

SelectFailures == { "none", "no_codec", "alloc_context", "parameters", "open2", "swr",
                    "alloc_frame", "alloc_packet" }

\* SelectAudioStream, lines 272-275: the checks made before the lock is
\* taken; "go" when the switch goes ahead.
SelectCheck(a, stream_index) ==
    IF ~a.formatContext THEN "false"
    ELSE IF stream_index < 0 \/ stream_index >= NumStreams(a.file) THEN "false"
    ELSE IF a.file.streams[stream_index + 1] # "audio" THEN "false"
    ELSE IF a.audioStreamIndex = stream_index THEN "true"
    ELSE "go"

\* The teardown without lines 309-310: the engine keeps pointing at the old
\* stream.
SelectTeardown_KeepsStream(a, stream_index) ==
    LET a1 == IF a.hasAudio THEN UnqueueAll(alSourceStop(a), Len(alSourceStop(a).queue)) ELSE a
    IN  [ a1 EXCEPT !.swrContext = FALSE, !.frame = FALSE, !.packet = FALSE,
                    !.codecContext = FALSE, !.codecBuf = <<>> ]

\* SelectAudioStream, lines 282-310: drain the source, free the decode
\* objects, point the engine at the new stream.
SelectTeardown(a, stream_index) ==
    LET a1 == IF a.hasAudio THEN UnqueueAll(alSourceStop(a), Len(alSourceStop(a).queue)) ELSE a
    IN  [ a1 EXCEPT !.swrContext = FALSE, !.frame = FALSE, !.packet = FALSE,
                    !.codecContext = FALSE, !.codecBuf = <<>>,
                    !.audioStreamIndex = stream_index, !.audioStream = TRUE ]

\* SelectAudioStream, lines 312-337: rebuild the decode objects.
SelectRebuild(a, fail) ==
    LET c1 == [ a EXCEPT !.codecContext = TRUE ]
        c2 == [ c1 EXCEPT !.sampleRate = StreamSampleRate, !.channels = StreamChannels ]
        c3 == [ c2 EXCEPT !.swrContext = TRUE ]
        c4 == [ c3 EXCEPT !.channels = OutChannels(StreamChannels),
                          !.frame = (fail # "alloc_frame"),
                          !.packet = (fail # "alloc_packet") ]
    IN  IF fail = "no_codec" THEN [ a |-> a, ret |-> FALSE ]
        ELSE IF fail = "alloc_context" THEN [ a |-> a, ret |-> FALSE ]
        ELSE IF fail = "parameters" THEN [ a |-> c1, ret |-> FALSE ]
        ELSE IF fail = "open2" THEN [ a |-> c1, ret |-> FALSE ]
        ELSE IF fail = "swr" THEN [ a |-> c2, ret |-> FALSE ]
        ELSE [ a |-> c4, ret |-> TRUE ]

\* SelectAudioStream, lines 339-353: seek to sync_time when it is positive
\* (the result of av_seek_frame is not looked at), refill, resume.
SelectRefill(a, seek_time, seekOk, was_playing) ==
    LET target == SeekTarget(a.file, a.audioStreamIndex, seek_time)
        a1 == IF seek_time > 0
              THEN [ FlushCodec(IF seekOk /\ target # -1 THEN [ a EXCEPT !.pos = target ] ELSE a)
                         EXCEPT !.currentTime = seek_time ]
              ELSE a
        a2 == QueueBuffers(a1)
    IN  IF a2.fault THEN [ a |-> a2, ret |-> FALSE ]
        ELSE [ a |-> IF was_playing THEN [ alSourcePlay(a2) EXCEPT !.isPlaying = TRUE ] ELSE a2,
               ret |-> TRUE ]

SelectAudioStream(a, stream_index, sync_time, fail, seekOk) ==
    LET chk == SelectCheck(a, stream_index)
        rb == SelectRebuild(SelectTeardown(a, stream_index), fail)
    IN  IF chk # "go" THEN [ a |-> a, ret |-> (chk = "true") ]
        ELSE IF ~rb.ret THEN rb
        ELSE SelectRefill(rb.a, sync_time, seekOk, a.isPlaying)

\* The device plays one queued buffer to its end; after the last one the
\* source stops by itself.
DeviceConsume(a) ==
    [ a EXCEPT !.cur = a.cur + 1,
               !.srcState = IF a.cur + 1 >= Len(a.queue) THEN "AL_STOPPED" ELSE @ ]

----------------------------------------------------------------------------
(* MediaPlayer *)

MaxClock == 2        \* ElapsedTime() is followed up to this value

NoTexture == [ valid |-> FALSE, pts |-> -1 ]

\* The MediaPlayer after OnStart (constructor, lines 15-46, then lines 48-55).
StartedPlayer ==
    [ decoder |-> ClosedDecoder, thumbnailDecoder |-> ClosedDecoder,
      audioDecoder |-> NewAudioDecoder,
      currentFrame |-> NoFrame, videoTexture |-> NoTexture, thumbnailTexture |-> NoTexture,
      lastThumbnailTime |-> -1, showThumbnail |-> FALSE,
      isPlaying |-> FALSE, hasVideo |-> FALSE,
      videoStartTime |-> 0, pausedAtTime |-> 0,
      currentFilePath |-> NoFile, seekBarValue |-> 0, isSeeking |-> FALSE,
      elapsed |-> 0 ]

\* The environment of one OpenFile call: what the three Open calls meet,
\* whether the converter and the texture can be created.
OpenFileEnv(video, audio, swsOk, textureOk) ==
    [ video |-> video, audio |-> audio, swsOk |-> swsOk, textureOk |-> textureOk ]

\* OpenFile with the file the dialog returned (filepath.has_value()).
OpenFile(m, f, e) ==
    LET m0 == [ m EXCEPT !.videoTexture = NoTexture, !.thumbnailTexture = NoTexture ]
        vo == Open(m0.decoder, f, e.video)
        m1 == [ m0 EXCEPT !.decoder = vo.d,
                          !.thumbnailDecoder = Open(m0.thumbnailDecoder, f, e.video).d,
                          !.audioDecoder = AudioOpen(m0.audioDecoder, f, e.audio).a,
                          !.currentFilePath = f, !.hasVideo = TRUE, !.isPlaying = FALSE,
                          !.pausedAtTime = 0, !.seekBarValue = 0,
                          !.lastThumbnailTime = -1, !.showThumbnail = FALSE ]
        df == DecodeNextFrame(m1.decoder, m1.currentFrame, e.swsOk)
        m2 == [ m1 EXCEPT !.decoder = df.d, !.currentFrame = df.out ]
    IN  IF ~vo.ret
        THEN [ m |-> [ m0 EXCEPT !.decoder = vo.d ], ret |-> FALSE ]
        ELSE IF ~df.ret
        THEN [ m |-> m2, ret |-> TRUE ]
        ELSE [ m |-> [ m2 EXCEPT !.videoTexture =
                                     IF e.textureOk THEN [ valid |-> TRUE, pts |-> df.out.pts ]
                                     ELSE NoTexture ],
               ret |-> TRUE ]

TogglePlayPause(m) ==
    IF ~m.hasVideo
    THEN m
    ELSE IF ~m.isPlaying
    THEN [ m EXCEPT !.isPlaying = TRUE,
                    !.videoStartTime = m.elapsed - m.pausedAtTime,
                    !.audioDecoder = IF HasAudio(@) THEN Play(@) ELSE @ ]
    ELSE [ m EXCEPT !.isPlaying = FALSE,
                    !.pausedAtTime = m.elapsed - m.videoStartTime,
                    !.audioDecoder = IF HasAudio(@) THEN Pause(@) ELSE @ ]

GetFPS(d) == d.fps

GetDuration(d) == d.duration

\* Line 609: currentPlaybackTime >= _currentFrame.timestamp + 1.0 / fps, in
\* whole frames; with fps = 0 the right-hand side is infinite.
FrameDue(m) ==
    /\ GetFPS(m.decoder) > 0
    /\ (m.elapsed - m.videoStartTime) * GetFPS(m.decoder)
          >= m.currentFrame.timestamp * GetFPS(m.decoder) + 1

\* _videoTexture->SetData with the frame just decoded.
ShowFrame(m, frame) ==
    [ m EXCEPT !.videoTexture = IF @.valid THEN [ valid |-> TRUE, pts |-> frame.pts ] ELSE @ ]

\* Lines 610-630 of UpdateVideo, df being what DecodeNextFrame returned.
FrameDecoded(m, df) ==
    IF df.ret
    THEN ShowFrame([ m EXCEPT !.decoder = df.d, !.currentFrame = df.out ], df.out)
    ELSE [ m EXCEPT !.decoder = df.d, !.currentFrame = df.out,
                    !.isPlaying = FALSE, !.pausedAtTime = GetDuration(df.d),
                    !.audioDecoder = IF HasAudio(@) THEN Stop(@) ELSE @ ]

\* UpdateVideo decoding on every tick, without the test of line 609.
UpdateVideo_EveryTick(m, swsOk) ==
    IF ~m.hasVideo THEN m
    ELSE FrameDecoded(m, DecodeNextFrame(m.decoder, m.currentFrame, swsOk))

\* The effect parameters are at their defaults in the sessions followed
\* here, so HasActiveEffects is false at line 618.
UpdateVideo(m, swsOk) ==
    IF ~m.hasVideo THEN m
    ELSE IF ~FrameDue(m) THEN m
    ELSE FrameDecoded(m, DecodeNextFrame(m.decoder, m.currentFrame, swsOk))

\* Lines 78-80 of OnUpdate.
UpdateAudio(m) == [ m EXCEPT !.audioDecoder = IF HasAudio(@) THEN Update(@) ELSE @ ]

\* OnUpdate, lines 72-80, on a tick without a key press.
OnUpdate(m, swsOk) ==
    UpdateAudio(IF m.isPlaying /\ m.hasVideo THEN UpdateVideo(m, swsOk) ELSE m)

\* The environment of one SeekTo call: the answers of the two av_seek_frame
\* calls and of sws_getContext.
SeekEnv(seekOk, audioSeekOk, swsOk) ==
    [ seekOk |-> seekOk, audioSeekOk |-> audioSeekOk, swsOk |-> swsOk ]

\* Lines 651-655 of SeekTo.
SeekCursor(m, wasPlaying) ==
    [ m EXCEPT !.pausedAtTime = m.currentFrame.timestamp,
               !.videoStartTime = IF wasPlaying THEN m.elapsed - m.currentFrame.timestamp
                                  ELSE @ ]

\* Lines 641-649 of SeekTo, df being what DecodeNextFrame returned.
SeekFrame(m, df) ==
    IF df.ret
    THEN ShowFrame([ m EXCEPT !.decoder = df.d, !.currentFrame = df.out ], df.out)
    ELSE [ m EXCEPT !.decoder = df.d, !.currentFrame = df.out ]

\* Lines 637-639 of SeekTo.
SeekAudio(m, timeSeconds, audioSeekOk) ==
    [ m EXCEPT !.audioDecoder = IF HasAudio(@)
                                THEN AudioSeek(@, timeSeconds, audioSeekOk).a
                                ELSE @ ]

\* Lines 636-658 of SeekTo, vs being what VideoDecoder::Seek returned.
SeekSought(m, timeSeconds, e, vs) ==
    IF ~vs.ret
    THEN [ m EXCEPT !.decoder = vs.d ]
    ELSE SeekCursor(SeekFrame(SeekAudio(m, timeSeconds, e.audioSeekOk),
                              DecodeNextFrame(vs.d, m.currentFrame, e.swsOk)),
                    m.isPlaying)

SeekTo(m, timeSeconds, e) ==
    IF ~m.hasVideo THEN m
    ELSE SeekSought(m, timeSeconds, e, Seek(m.decoder, timeSeconds, e.seekOk))

\* The "Stop" item of the Playback menu, lines 153-157 (enabled by _hasVideo).
StopItem(m, e) ==
    IF ~m.hasVideo THEN m
    ELSE SeekTo([ m EXCEPT !.isPlaying = FALSE, !.pausedAtTime = 0 ], 0, e)

\* DrawControls, lines 289-298.  _seekBarValue is held as a time, not as
\* the fraction of the duration.
Timeline(m) ==
    LET duration == GetDuration(m.decoder)
        currentTime == IF m.isPlaying THEN m.elapsed - m.videoStartTime ELSE m.pausedAtTime
        shown == IF currentTime > duration THEN duration
                 ELSE IF currentTime < 0 THEN 0 ELSE currentTime
    IN  IF ~m.hasVideo THEN m
        ELSE [ m EXCEPT !.isPlaying = IF currentTime > duration THEN FALSE ELSE @,
                        !.seekBarValue = IF m.isSeeking THEN @ ELSE shown ]

\* The step buttons of DrawControls, lines 327-330 and 337-339.
StepBack(m, e) == [ SeekTo(Timeline(m), 0, e) EXCEPT !.pausedAtTime = 0 ]

StepForward(m, e) ==
    IF ~m.hasVideo THEN m ELSE SeekTo(Timeline(m), GetDuration(m.decoder), e)

\* The seek bar dragged to timeSeconds and released, lines 471-477.
SeekBarRelease(m, timeSeconds, e) ==
    IF ~m.hasVideo THEN Timeline(m)
    ELSE [ SeekTo([ Timeline(m) EXCEPT !.seekBarValue = timeSeconds ], timeSeconds, e)
               EXCEPT !.isSeeking = FALSE ]

----------------------------------------------------------------------------
(* VideoEffects.  Float fields are held in hundredths. *)

MaxEdits == 1        \* fields of the three parameter structs away from their default
MaxFrames == 1       \* _frameCounter is followed up to this value
MaxDispatches == 3   \* the same, where frames of varying size are followed

DefaultColorAdjustments ==
    [ brightness |-> 0, contrast |-> 100, gamma |-> 100, hue |-> 0, saturation |-> 100,
      temperature |-> 0, tint |-> 0, exposure |-> 0, shadows |-> 0, highlights |-> 0 ]

DefaultFilterSettings ==
    [ type |-> "None", strength |-> 100, threshold |-> 50, levels |-> 4 ]

DefaultPostProcessSettings ==
    [ vignette |-> 0, vignetteSize |-> 50, filmGrain |-> 0, chromaticAberration |-> 0,
      scanlines |-> 0, vintageEnabled |-> FALSE, vintageStrength |-> 50,
      bloom |-> 0, bloomThreshold |-> 80, bloomRadius |-> 400 ]

ColorIsDefault(c) ==
    /\ c.brightness = 0 /\ c.contrast = 100 /\ c.gamma = 100
    /\ c.hue = 0 /\ c.saturation = 100 /\ c.temperature = 0
    /\ c.tint = 0 /\ c.exposure = 0 /\ c.shadows = 0 /\ c.highlights = 0

ColorReset(c) ==
    [ c EXCEPT !.brightness = 0, !.contrast = 100, !.gamma = 100, !.hue = 0,
               !.saturation = 100, !.temperature = 0, !.tint = 0, !.exposure = 0,
               !.shadows = 0, !.highlights = 0 ]

FilterIsDefault(f) == f.type = "None"

\* Reset() of FilterSettings restoring the filter type only.
FilterReset_TypeOnly(f) == [ f EXCEPT !.type = "None" ]

FilterReset(f) ==
    [ f EXCEPT !.type = "None", !.strength = 100, !.threshold = 50, !.levels = 4 ]

PostProcessIsDefault(p) ==
    /\ p.vignette = 0 /\ p.filmGrain = 0
    /\ p.chromaticAberration = 0 /\ p.scanlines = 0 /\ ~p.vintageEnabled /\ p.bloom = 0

PostProcessReset(p) ==
    [ p EXCEPT !.vignette = 0, !.vignetteSize = 50, !.filmGrain = 0,
               !.chromaticAberration = 0, !.scanlines = 0, !.vintageEnabled = FALSE,
               !.vintageStrength = 50, !.bloom = 0, !.bloomThreshold = 80,
               !.bloomRadius = 400 ]

\* VkImageView handle values.  The driver picks the value of a new handle;
\* the value of a destroyed handle may be given out again.
NullHandle == 0
Handles == { 1, 2, 3 }

\* The VideoEffects object after its constructor.  srcBinding and dstBinding
\* are what bindings 0 and 1 of _descriptorSet refer to: "none" (never
\* written), "scratch" / "target" (the view that is current), or "destroyed"
\* (a view that has been destroyed since the write).
NewVideoEffects ==
    [ context |-> FALSE,
      descriptorSetLayout |-> FALSE, shaderModule |-> FALSE, pipelineLayout |-> FALSE,
      computePipeline |-> FALSE, descriptorSet |-> FALSE,
      srcBinding |-> "none", dstBinding |-> "none",
      stagingImage |-> FALSE, stagingImageView |-> NullHandle,
      stagingWidth |-> 0, stagingHeight |-> 0,
      stagingContent |-> "none",
      lastSrcView |-> NullHandle, lastDstView |-> NullHandle,
      colorAdjust |-> DefaultColorAdjustments,
      filter |-> DefaultFilterSettings,
      postProcess |-> DefaultPostProcessSettings,
      frameCounter |-> 0,
      initialized |-> FALSE ]

\* A texture: the image it holds ("frame": what SetData wrote; "processed":
\* what the compute shader wrote), its size, the handle of its image view
\* and the layout its image is in.
CreateTexture(width, height, view) ==
    [ image |-> "frame", width |-> width, height |-> height, view |-> view,
      layout |-> "SHADER_READ_ONLY" ]

NewTexture == CreateTexture(FrameWidth, FrameHeight, 1)

\* _videoTexture.reset(): the image view is destroyed, and a descriptor that
\* was written with it no longer refers to a view.
TextureDestroyed(e) ==
    [ e EXCEPT !.dstBinding = IF @ = "target" THEN "destroyed" ELSE @ ]

SetData(texture) == [ texture EXCEPT !.image = "frame" ]

InitFailures == { "none", "layout", "shader", "pipeline", "descriptor" }

Init(e, fail) ==
    LET e1 == [ e EXCEPT !.context = TRUE ]
        e2 == [ e1 EXCEPT !.descriptorSetLayout = TRUE ]
        e3 == [ e2 EXCEPT !.shaderModule = TRUE, !.pipelineLayout = TRUE ]
        e4 == [ e3 EXCEPT !.computePipeline = TRUE ]
        e5 == [ e4 EXCEPT !.descriptorSet = TRUE, !.srcBinding = "none",
                          !.dstBinding = "none" ]
    IN  IF e.initialized THEN [ e |-> e, ret |-> TRUE ]
        ELSE IF fail = "layout" THEN [ e |-> e1, ret |-> FALSE ]
        ELSE IF fail = "shader" THEN [ e |-> e2, ret |-> FALSE ]
        ELSE IF fail = "pipeline" THEN [ e |-> e3, ret |-> FALSE ]
        ELSE IF fail = "descriptor" THEN [ e |-> e4, ret |-> FALSE ]
        ELSE [ e |-> [ e5 EXCEPT !.initialized = TRUE ], ret |-> TRUE ]

DestroyStagingImage(e) ==
    [ e EXCEPT !.stagingImage = FALSE, !.stagingContent = "none",
               !.stagingImageView = NullHandle,
               !.srcBinding = IF @ = "scratch" THEN "destroyed" ELSE @,
               !.stagingWidth = 0, !.stagingHeight = 0 ]

EffectsCleanup(e) ==
    IF ~e.context
    THEN e
    ELSE [ DestroyStagingImage(e) EXCEPT !.computePipeline = FALSE, !.pipelineLayout = FALSE,
                                         !.shaderModule = FALSE,
                                         !.descriptorSetLayout = FALSE,
                                         !.initialized = FALSE ]

\* view is the handle vkCreateImageView gives out, NullHandle when one of
\* the Vulkan calls fails.
CreateStagingImage(e, width, height, view) ==
    IF e.stagingImage /\ e.stagingWidth = width /\ e.stagingHeight = height
    THEN [ e |-> e, ret |-> TRUE ]
    ELSE IF view = NullHandle
    THEN [ e |-> DestroyStagingImage(e), ret |-> FALSE ]
    ELSE [ e |-> [ DestroyStagingImage(e) EXCEPT !.stagingImage = TRUE,
                                                 !.stagingImageView = view,
                                                 !.stagingContent = "undefined",
                                                 !.stagingWidth = width,
                                                 !.stagingHeight = height,
                                                 !.lastSrcView = NullHandle,
                                                 !.lastDstView = NullHandle ],
           ret |-> TRUE ]

UpdateDescriptorSet(e, srcView, dstView) ==
    IF srcView = e.lastSrcView /\ dstView = e.lastDstView
    THEN e
    ELSE [ e EXCEPT !.srcBinding = "scratch", !.dstBinding = "target",
                    !.lastSrcView = srcView, !.lastDstView = dstView ]

HasActiveEffects(e) ==
    ~ColorIsDefault(e.colorAdjust) \/ ~FilterIsDefault(e.filter)
        \/ ~PostProcessIsDefault(e.postProcess)

ResetAll(e) ==
    [ e EXCEPT !.colorAdjust = ColorReset(@), !.filter = FilterReset(@),
               !.postProcess = PostProcessReset(@) ]

\* One recorded command: its name and what it does to the target image and
\* to the scratch image.  For a barrier that is <<oldLayout, newLayout>>,
\* for a copy or a dispatch <<access, layout>>; NoImage when the command
\* does not touch the image.
NoImage == << "-", "-" >>

Command(cmd, target, scratch) == [ cmd |-> cmd, target |-> target, scratch |-> scratch ]

\* The commands ProcessFrame records between BeginSingleTimeCommands and
\* EndSingleTimeCommands.  The shader reads binding 0 and writes binding 1 of
\* the bound descriptor set.
FrameCommands(e) ==
    << Command("barrier", << "SHADER_READ_ONLY", "TRANSFER_SRC" >>,
                          << "UNDEFINED", "TRANSFER_DST" >>),
       Command("copy", << "read", "TRANSFER_SRC" >>, << "write", "TRANSFER_DST" >>),
       Command("barrier", << "TRANSFER_SRC", "GENERAL" >>, << "TRANSFER_DST", "GENERAL" >>),
       Command("bindPipeline", NoImage, NoImage),
       Command("bindDescriptorSets", NoImage, NoImage),
       Command("push", NoImage, NoImage),
       Command("dispatch",
               IF e.dstBinding = "target" THEN << "write", "GENERAL" >> ELSE NoImage,
               IF e.srcBinding = "scratch" THEN << "read", "GENERAL" >> ELSE NoImage),
       Command("barrier", << "GENERAL", "SHADER_READ_ONLY" >>, NoImage) >>

\* The layout the commands leave an image ("target" or "scratch") in.
RECURSIVE LayoutAfter(_, _, _)
LayoutAfter(cmds, image, layout) ==
    IF cmds = <<>>
    THEN layout
    ELSE LayoutAfter(Tail(cmds), image,
                     IF Head(cmds).cmd = "barrier" /\ Head(cmds)[image] # NoImage
                     THEN Head(cmds)[image][2]
                     ELSE layout)

NoTextureArg == [ image |-> "null", width |-> 0, height |-> 0, view |-> NullHandle,
                  layout |-> "UNDEFINED" ]

\* What the submitted commands leave in the texture.  A dispatch whose
\* output binding refers to a destroyed view writes through a dangling
\* descriptor: staleWrites tells whether that write lands in the texture.
Submit(e, texture, cmds, staleWrites) ==
    [ texture EXCEPT !.image = IF e.dstBinding = "target" \/ staleWrites
                               THEN "processed" ELSE @,
                     !.layout = LayoutAfter(cmds, "target", @) ]

\* ProcessFrame without the HasActiveEffects test of line 632.
ProcessFrame_AlwaysDispatch(e, texture, view, staleWrites) ==
    LET e1 == [ e EXCEPT !.frameCounter = @ + 1 ]
        st == CreateStagingImage(e1, texture.width, texture.height, view)
        e2 == UpdateDescriptorSet(st.e, st.e.stagingImageView, texture.view)
    IN  IF ~e.initialized \/ texture = NoTextureArg
        THEN [ e |-> e, texture |-> texture, cmds |-> <<>> ]
        ELSE IF ~st.ret
        THEN [ e |-> st.e, texture |-> texture, cmds |-> <<>> ]
        ELSE [ e |-> [ e2 EXCEPT !.stagingContent = "copy" ],
               texture |-> Submit(e2, texture, FrameCommands(e2), staleWrites),
               cmds |-> FrameCommands(e2) ]

ProcessFrame(e, texture, view, staleWrites) ==
    LET e1 == [ e EXCEPT !.frameCounter = @ + 1 ]
        st == CreateStagingImage(e1, texture.width, texture.height, view)
        e2 == UpdateDescriptorSet(st.e, st.e.stagingImageView, texture.view)
    IN  IF ~e.initialized \/ texture = NoTextureArg \/ ~HasActiveEffects(e)
        THEN [ e |-> e, texture |-> texture, cmds |-> <<>> ]
        ELSE IF ~st.ret
        THEN [ e |-> st.e, texture |-> texture, cmds |-> <<>> ]
        ELSE [ e |-> [ e2 EXCEPT !.stagingContent = "copy" ],
               texture |-> Submit(e2, texture, FrameCommands(e2), staleWrites),
               cmds |-> FrameCommands(e2) ]

----------------------------------------------------------------------------
(* The VideoEffects object under the effect windows' controls, the        *)
(* "Reset" buttons and the frames the player hands to ProcessFrame.       *)

\* fcall records the last call: its name, what it returned, the GPU commands
\* it recorded, whether it was given a texture, and how many parameter
\* fields were away from their default when it was made.
NoEffectsCall ==
    [ op |-> "none", ret |-> FALSE, cmds |-> <<>>, texture |-> FALSE, edited |-> 0 ]

\* The values the sliders, the combo and the checkbox are moved to.
ColorValues ==
    [ brightness |-> { 0, 50 }, contrast |-> { 100, 150 }, gamma |-> { 100, 220 },
      hue |-> { 0, -25 }, saturation |-> { 100, 0 }, temperature |-> { 0, -50 },
      tint |-> { 0, 30 }, exposure |-> { 0, -300 }, shadows |-> { 0, 100 },
      highlights |-> { 0, -100 } ]

FilterValues ==
    [ type |-> { "None", "Grayscale", "EdgeDetect" }, strength |-> { 100, 0 },
      threshold |-> { 50, 100 }, levels |-> { 4, 16 } ]

PostProcessValues ==
    [ vignette |-> { 0, 100 }, vignetteSize |-> { 50, 0 }, filmGrain |-> { 0, 20 },
      chromaticAberration |-> { 0, 100 }, scanlines |-> { 0, 50 },
      vintageEnabled |-> BOOLEAN, vintageStrength |-> { 50, 100 },
      bloom |-> { 0, 200 }, bloomThreshold |-> { 80, 0 }, bloomRadius |-> { 400, 100 } ]

\* The fields of a struct whose value is not the default-constructed one.
Differing(r, default) == { f \in DOMAIN default : r[f] # default[f] }

Edited(e) ==
    Cardinality(Differing(e.colorAdjust, DefaultColorAdjustments))
        + Cardinality(Differing(e.filter, DefaultFilterSettings))
        + Cardinality(Differing(e.postProcess, DefaultPostProcessSettings))

FCall(op, ret, cmds, texture) ==
    [ op |-> op, ret |-> ret, cmds |-> cmds, texture |-> texture, edited |-> Edited(fx) ]

TextureSizes == { <<FrameWidth, FrameHeight>>, <<2, 2>> }

FInit ==
    \E fail \in { "none", "layout", "descriptor" } :
        /\ fx' = Init(fx, fail).e
        /\ fcall' = FCall("Init", Init(fx, fail).ret, <<>>, FALSE)
        /\ UNCHANGED <<tex, videoVars, audioVars, threadVars, playerVars>>

FCleanup ==
    /\ fx' = EffectsCleanup(fx)
    /\ fcall' = FCall("Cleanup", TRUE, <<>>, FALSE)
    /\ UNCHANGED <<tex, videoVars, audioVars, threadVars, playerVars>>

FSetColor ==
    \E f \in DOMAIN ColorValues : \E v \in ColorValues[f] :
        /\ fx' = [ fx EXCEPT !.colorAdjust[f] = v ]
        /\ Edited(fx') <= MaxEdits
        /\ fcall' = FCall("Set", TRUE, <<>>, FALSE)
        /\ UNCHANGED <<tex, videoVars, audioVars, threadVars, playerVars>>

FSetFilter ==
    \E f \in DOMAIN FilterValues : \E v \in FilterValues[f] :
        /\ fx' = [ fx EXCEPT !.filter[f] = v ]
        /\ Edited(fx') <= MaxEdits
        /\ fcall' = FCall("Set", TRUE, <<>>, FALSE)
        /\ UNCHANGED <<tex, videoVars, audioVars, threadVars, playerVars>>

FSetPostProcess ==
    \E f \in DOMAIN PostProcessValues : \E v \in PostProcessValues[f] :
        /\ fx' = [ fx EXCEPT !.postProcess[f] = v ]
        /\ Edited(fx') <= MaxEdits
        /\ fcall' = FCall("Set", TRUE, <<>>, FALSE)
        /\ UNCHANGED <<tex, videoVars, audioVars, threadVars, playerVars>>

FColorReset ==
    /\ fx' = [ fx EXCEPT !.colorAdjust = ColorReset(@) ]
    /\ fcall' = FCall("ColorReset", TRUE, <<>>, FALSE)
    /\ UNCHANGED <<tex, videoVars, audioVars, threadVars, playerVars>>

FFilterReset ==
    /\ fx' = [ fx EXCEPT !.filter = FilterReset(@) ]
    /\ fcall' = FCall("FilterReset", TRUE, <<>>, FALSE)
    /\ UNCHANGED <<tex, videoVars, audioVars, threadVars, playerVars>>

FPostProcessReset ==
    /\ fx' = [ fx EXCEPT !.postProcess = PostProcessReset(@) ]
    /\ fcall' = FCall("PostProcessReset", TRUE, <<>>, FALSE)
    /\ UNCHANGED <<tex, videoVars, audioVars, threadVars, playerVars>>

FResetAll ==
    /\ fx' = ResetAll(fx)
    /\ fcall' = FCall("ResetAll", TRUE, <<>>, FALSE)
    /\ UNCHANGED <<tex, videoVars, audioVars, threadVars, playerVars>>

\* OpenFile drops the video texture and creates one of the new video's size;
\* the driver gives its image view a handle that no live view has.
FOpenFileOn(sizes, handles) ==
    \E size \in sizes, view \in handles \ { fx.stagingImageView } :
        /\ fx' = TextureDestroyed(fx)
        /\ tex' = CreateTexture(size[1], size[2], view)
        /\ fcall' = FCall("OpenFile", TRUE, <<>>, TRUE)
        /\ UNCHANGED <<videoVars, audioVars, threadVars, playerVars>>

\* The player writes a decoded frame into the texture.
FSetData ==
    /\ tex' = SetData(tex)
    /\ fcall' = FCall("SetData", TRUE, <<>>, TRUE)
    /\ UNCHANGED <<fx, videoVars, audioVars, threadVars, playerVars>>

FProcessFrameOn(handles, frames) ==
    \E texture \in { tex, NoTextureArg }, view \in handles \ { tex.view },
       staleWrites \in BOOLEAN :
        LET r == ProcessFrame(fx, texture, view, staleWrites)
        IN  /\ r.e.frameCounter <= frames
            /\ fx' = r.e
            /\ tex' = IF texture = NoTextureArg THEN tex ELSE r.texture
            /\ fcall' = FCall("ProcessFrame", TRUE, r.cmds, texture # NoTextureArg)
            /\ UNCHANGED <<videoVars, audioVars, threadVars, playerVars>>

\* The effect windows' session: one video size, so the scratch image is kept
\* from frame to frame unless its creation fails.
FOpenFile == FOpenFileOn(TextureSizes, { 1 })

FProcessFrame == FProcessFrameOn({ NullHandle, 2 }, MaxFrames)

----------------------------------------------------------------------------
(* The VideoDecoder under every call sequence.  dec receives every call;  *)
(* ref receives the same calls with the same environment, except the      *)
(* GetThumbnailAt calls.                                                  *)

NoThread == "none"
Threads == { "ui", "tick" }

NoCall == [ op |-> "none", ret |-> FALSE, arg |-> -1, setup |-> "none" ]


\* vcall records the last call: its name, what it returned on dec and on
\* ref, whether dec was open when it was made, and run: the number of
\* DecodeNextFrame calls that returned true since the last successful Open
\* when nothing but DecodeNextFrame with a working converter was called
\* since (-1 otherwise).
VCall(op, ret, refRet, run) ==
    [ op |-> op, ret |-> ret, refRet |-> refRet, wasOpen |-> IsOpen(dec), run |-> run ]

VideoInit ==
    /\ dec = ClosedDecoder
    /\ ref = ClosedDecoder
    /\ out = NoFrame
    /\ refOut = NoFrame
    /\ thumb = NoFrame
    /\ vcall = [ op |-> "none", ret |-> FALSE, refRet |-> FALSE, wasOpen |-> FALSE, run |-> -1 ]

AudioIdle ==
    /\ ad = NewAudioDecoder
    /\ acall = NoCall
    /\ played = <<>>

\* The locals of a call in progress: its arguments, the environment's
\* answers (seekOk, fail), was_playing and the source state read by Update.
NoLocals ==
    [ time |-> 0, seekOk |-> TRUE, index |-> -1, fail |-> "none",
      was_playing |-> FALSE, state |-> "AL_INITIAL" ]

ThreadsIdle ==
    /\ pc = [ t \in Threads |-> "idle" ]
    /\ decodeMutex = NoThread
    /\ tl = [ t \in Threads |-> NoLocals ]

PlayerIdle ==
    /\ mp = StartedPlayer
    /\ pcall = NoCall

EffectsIdle ==
    /\ fx = NewVideoEffects
    /\ tex = NewTexture
    /\ fcall = NoEffectsCall

ThumbBoxes == { <<160, 90>>, <<2, 2>> }

\* The (file, environment) pairs Open is tried on: every file with software
\* decode, the hardware outcomes on the files of HardwareFiles, and every
\* failing step on the files of FailingFiles.
HardwareFiles == { MkFile(<<"video">>, MaxPackets, 0, {}, TRUE) }
FailingFiles == { MkFile(<<"video">>, 1, 0, {}, TRUE) }

OpenCases ==
    (Files \X { SoftwareEnv }) \cup (HardwareFiles \X HardwareEnvs)
        \cup (FailingFiles \X FailingEnvs)

VOpen ==
    \E c \in OpenCases :
        LET r == Open(dec, c[1], c[2])
            rr == Open(ref, c[1], c[2])
        IN  /\ dec' = r.d
            /\ ref' = rr.d
            /\ vcall' = VCall("Open", r.ret, rr.ret, IF r.ret THEN 0 ELSE -1)
            /\ out' = NoFrame /\ refOut' = NoFrame /\ thumb' = NoFrame
            /\ UNCHANGED nonVideoVars

VClose ==
    /\ dec' = Close(dec)
    /\ ref' = Close(ref)
    /\ vcall' = VCall("Close", TRUE, TRUE, -1)
    /\ out' = NoFrame /\ refOut' = NoFrame /\ thumb' = NoFrame
    /\ UNCHANGED nonVideoVars

VDecodeNextFrame ==
    \E swsOk \in BOOLEAN :
        LET r == DecodeNextFrame(dec, NoFrame, swsOk)
            rr == DecodeNextFrame(ref, NoFrame, swsOk)
        IN  /\ dec' = r.d
            /\ out' = r.out
            /\ ref' = rr.d
            /\ refOut' = rr.out
            /\ vcall' = VCall("DecodeNextFrame", r.ret, rr.ret,
                              IF vcall.run = -1 \/ ~swsOk THEN -1
                              ELSE IF r.ret THEN vcall.run + 1 ELSE vcall.run)
            /\ thumb' = NoFrame
            /\ UNCHANGED nonVideoVars

VSeek ==
    \E t \in 0..MaxSeek, seekOk \in BOOLEAN :
        LET r == Seek(dec, t, seekOk)
            rr == Seek(ref, t, seekOk)
        IN  /\ dec' = r.d
            /\ ref' = rr.d
            /\ vcall' = VCall("Seek", r.ret, rr.ret, -1)
            /\ out' = NoFrame /\ refOut' = NoFrame /\ thumb' = NoFrame
            /\ UNCHANGED nonVideoVars

VGetThumbnailAt ==
    \E t \in 0..MaxSeek, box \in ThumbBoxes, e \in ThumbEnvs :
        LET r == GetThumbnailAt(dec, NoFrame, t, box[1], box[2], e)
        IN  /\ dec' = r.d
            /\ thumb' = r.out
            /\ vcall' = VCall("GetThumbnailAt", r.ret, FALSE, -1)
            /\ out' = NoFrame /\ refOut' = NoFrame
            /\ UNCHANGED ref
            /\ UNCHANGED nonVideoVars


----------------------------------------------------------------------------
(* The AudioDecoder under every sequence of calls from one thread, with   *)
(* the device playing queued buffers at arbitrary moments.  A call made   *)
(* after a null dereference is not modelled: the process is gone.         *)

\* acall records the last call: its name, what it returned, its argument
\* (the stream index given to SelectAudioStream, the volume given to
\* SetVolume, the processed-buffer count an Update that got past its first
\* line read, -1 otherwise) and the set-up step the environment made fail.
ACall(op, ret, arg, setup) == [ op |-> op, ret |-> ret, arg |-> arg, setup |-> setup ]

AudioVarsInit ==
    /\ ad = NewAudioDecoder
    /\ acall = NoCall
    /\ played = <<>>

SeekTimes == 0..MaxSeek
SyncTimes == { 0, 2 }

AudioOpenCases ==
    (AudioFiles \X { "none" }) \cup ({ TwoTrackFile } \X AudioOpenFailures)

AOpenOn(cases) ==
    \E c \in cases :
        LET r == AudioOpen(ad, c[1], c[2])
        IN  /\ ~ad.fault
            /\ ad' = r.a
            /\ acall' = ACall("Open", r.ret, -1, c[2])
            /\ UNCHANGED <<played, videoVars, threadVars, playerVars, effectsVars>>

AOpen == AOpenOn(AudioOpenCases)

AClose ==
    /\ ~ad.fault
    /\ ad' = AudioClose(ad)
    /\ acall' = ACall("Close", TRUE, -1, "none")
    /\ UNCHANGED <<played, videoVars, threadVars, playerVars, effectsVars>>

APlay ==
    /\ ~ad.fault
    /\ ad' = Play(ad)
    /\ acall' = ACall("Play", TRUE, -1, "none")
    /\ UNCHANGED <<played, videoVars, threadVars, playerVars, effectsVars>>

APause ==
    /\ ~ad.fault
    /\ ad' = Pause(ad)
    /\ acall' = ACall("Pause", TRUE, -1, "none")
    /\ UNCHANGED <<played, videoVars, threadVars, playerVars, effectsVars>>

AStop ==
    /\ ~ad.fault
    /\ ad' = Stop(ad)
    /\ acall' = ACall("Stop", TRUE, -1, "none")
    /\ UNCHANGED <<played, videoVars, threadVars, playerVars, effectsVars>>

ASeekAt(times) ==
    \E t \in times, seekOk \in BOOLEAN :
        LET r == AudioSeek(ad, t, seekOk)
        IN  /\ ~ad.fault
            /\ Len(ad.queue) + NUM_BUFFERS <= MaxQueued
            /\ ad' = r.a
            /\ acall' = ACall("Seek", r.ret, -1, "none")
            /\ UNCHANGED <<played, videoVars, threadVars, playerVars, effectsVars>>

ASeek == ASeekAt(SeekTimes)

\* The (stream_index, sync_time, failing set-up step, av_seek_frame result)
\* combinations SelectAudioStream is tried on.
SelectCases ==
    { <<i, t, "none", TRUE>> : i \in -1..3, t \in SyncTimes }
        \cup { <<i, 2, "none", FALSE>> : i \in 1..2 }
        \cup { <<i, 0, fl, TRUE>> : i \in 1..2, fl \in SelectFailures }

ASelectOn(cases) ==
    \E c \in cases :
        LET r == SelectAudioStream(ad, c[1], c[2], c[3], c[4])
        IN  /\ ~ad.fault
            /\ Len(ad.queue) + NUM_BUFFERS <= MaxQueued
            /\ ad' = r.a
            /\ acall' = ACall("SelectAudioStream", r.ret, c[1], c[3])
            /\ UNCHANGED <<played, videoVars, threadVars, playerVars, effectsVars>>

ASelectAudioStream == ASelectOn(SelectCases)

VolumeInputs == { -50, 30, 150 }

ASetVolume ==
    \E v \in VolumeInputs :
        /\ ~ad.fault
        /\ ad' = SetVolume(ad, v)
        /\ acall' = ACall("SetVolume", TRUE, v, "none")
        /\ UNCHANGED <<played, videoVars, threadVars, playerVars, effectsVars>>

AUpdate ==
    /\ ~ad.fault
    /\ ad' = Update(ad)
    /\ acall' = ACall("Update", TRUE,
                       IF ad.hasAudio /\ ad.isPlaying THEN BuffersProcessed(ad) ELSE -1,
                       "none")
    /\ UNCHANGED <<played, videoVars, threadVars, playerVars, effectsVars>>

ADeviceConsume ==
    /\ ~ad.fault
    /\ ad.alSource
    /\ ad.srcState = "AL_PLAYING"
    /\ ad.cur < Len(ad.queue)
    /\ ad' = DeviceConsume(ad)
    /\ UNCHANGED <<acall, played, videoVars, threadVars, playerVars, effectsVars>>

AudioSpecInit == VideoInit /\ AudioVarsInit /\ ThreadsIdle /\ PlayerIdle /\ EffectsIdle

AudioSpecNext ==
    AOpen \/ AClose \/ APlay \/ APause \/ AStop \/ ASeek \/ ASelectAudioStream
        \/ AUpdate \/ ADeviceConsume

SpecAudio == AudioSpecInit /\ [][AudioSpecNext]_vars

\* The same operations with SetVolume among them, on short files.
ShortTwoTrackFile == AudioFile(<<"audio", "audio">>, 2, 0, 65536)

VolumeOpenCases ==
    { <<ShortTwoTrackFile, "none">>, <<ShortTwoTrackFile, "openal">>, <<SilentFile, "none">> }

VolumeSelectCases ==
    { <<0, 0, "none", TRUE>>, <<1, 0, "none", TRUE>>, <<1, 0, "swr", TRUE>> }

VolumeSpecNext ==
    AOpenOn(VolumeOpenCases) \/ AClose \/ APlay \/ APause \/ AStop \/ ASeekAt({ 0 })
        \/ ASelectOn(VolumeSelectCases) \/ AUpdate \/ ADeviceConsume \/ ASetVolume

SpecVolume == AudioSpecInit /\ [][VolumeSpecNext]_vars

\* Natural end of stream.  The stream is exhausted while the engine plays:
\* from then on the caller makes no call but the periodic Update, and the
\* device goes on playing what is queued.
Draining(a) == HasAudio(a) /\ IsPlaying(a) /\ a.pos >= NumPackets(a.file) /\ ~a.fault

UntilDrained(A) == ~Draining(ad) /\ A

DrainOpenCases == { <<ShortTwoTrackFile, "none">>, <<DelayFile, "none">> }

DrainSpecNext ==
    \/ UntilDrained(AOpenOn(DrainOpenCases))
    \/ UntilDrained(AClose)
    \/ UntilDrained(APlay)
    \/ UntilDrained(APause)
    \/ UntilDrained(AStop)
    \/ UntilDrained(ASeekAt({ 0, 1 }))
    \/ UntilDrained(ASelectOn(VolumeSelectCases))
    \/ AUpdate
    \/ ADeviceConsume

\* ENABLED <<AUpdate>>_vars as a state predicate: the engine has not
\* faulted and a call of Update changes the engine or the call record.
UpdateEnabled ==
    /\ ~ad.fault
    /\ <<Update(ad),
          ACall("Update", TRUE,
                IF ad.hasAudio /\ ad.isPlaying THEN BuffersProcessed(ad) ELSE -1,
                "none")>> # <<ad, acall>>

\* WF_vars(AUpdate), with its enabling condition written as UpdateEnabled.
UpdateKeepsBeingCalled == []<>(~UpdateEnabled) \/ []<><<AUpdate>>_vars

\* MediaPlayer::OnUpdate calls Update on every tick, and the device plays
\* a queued buffer to its end.
SpecDrain ==
    AudioSpecInit /\ [][DrainSpecNext]_vars /\ UpdateKeepsBeingCalled /\ WF_vars(ADeviceConsume)

----------------------------------------------------------------------------
(* Steady playback: any calls, then Play followed by Update calls and      *)
(* device consumption only.  played holds the chunks the device has played *)
(* since that Play.                                                        *)

\* The last call was Play, or an Update that followed it.
Steady == acall.op \in { "Play", "Update" }

SteadyOpenCases == AudioFiles \X { "none" }
SteadySeekTimes == { 0, 2 }

SPlay ==
    /\ ~ad.fault
    /\ ad' = Play(ad)
    /\ acall' = ACall("Play", TRUE, -1, "none")
    /\ played' = <<>>
    /\ UNCHANGED <<videoVars, threadVars, playerVars, effectsVars>>

SUpdate == Steady /\ AUpdate

\* The device plays the buffer at the head of what it has pending.
SDeviceConsume ==
    /\ ~ad.fault
    /\ ad.alSource
    /\ ad.srcState = "AL_PLAYING"
    /\ ad.cur < Len(ad.queue)
    /\ ad' = DeviceConsume(ad)
    /\ played' = IF Steady THEN played \o ad.bufData[ad.queue[ad.cur + 1]] ELSE played
    /\ UNCHANGED <<acall, videoVars, threadVars, playerVars, effectsVars>>

SteadySpecNext ==
    \/ AOpenOn(SteadyOpenCases)
    \/ APause
    \/ AStop
    \/ ASeekAt(SteadySeekTimes)
    \/ ASelectOn(VolumeSelectCases)
    \/ SPlay
    \/ SUpdate
    \/ SDeviceConsume

SpecSteady == AudioSpecInit /\ [][SteadySpecNext]_vars

----------------------------------------------------------------------------
(* Seek, SelectAudioStream and Update called from different threads on an *)
(* engine that has a two-track file open.  Each call is a sequence of     *)
(* steps; std::lock_guard takes _decodeMutex where the call constructs it *)
(* and releases it at every return.                                       *)

\* What a step of a thread on the AudioDecoder leaves alone.
threadFrame == <<acall, played, videoVars, playerVars, effectsVars>>

Idle(t) == pc[t] = "idle" /\ ~ad.fault

Goto(t, label, locals) ==
    /\ pc' = [ pc EXCEPT ![t] = label ]
    /\ tl' = [ tl EXCEPT ![t] = locals ]
    /\ UNCHANGED threadFrame

Return(t) ==
    /\ pc' = [ pc EXCEPT ![t] = "idle" ]
    /\ tl' = [ tl EXCEPT ![t] = NoLocals ]
    /\ decodeMutex' = IF decodeMutex = t THEN NoThread ELSE decodeMutex
    /\ UNCHANGED threadFrame

\* std::lock_guard<std::mutex> lock(_decodeMutex)
Lock(t, from, to) ==
    /\ pc[t] = from
    /\ decodeMutex = NoThread
    /\ decodeMutex' = t
    /\ pc' = [ pc EXCEPT ![t] = to ]
    /\ UNCHANGED <<ad, tl>>
    /\ UNCHANGED threadFrame

TSeekCall(t) ==
    \E time \in SyncTimes, seekOk \in BOOLEAN :
        /\ Idle(t)
        /\ Len(ad.queue) + NUM_BUFFERS <= MaxQueued
        /\ Goto(t, "seek_lock", [ NoLocals EXCEPT !.time = time, !.seekOk = seekOk ])
        /\ UNCHANGED <<ad, decodeMutex>>

TSeekLock(t) == Lock(t, "seek_lock", "seek_drain")

TSeekDrain(t) ==
    /\ pc[t] = "seek_drain"
    /\ IF ~ad.formatContext \/ ~ad.audioStream
       THEN Return(t) /\ UNCHANGED ad
       ELSE /\ ad' = SeekDrain(ad)
            /\ Goto(t, "seek_refill", [ tl[t] EXCEPT !.was_playing = ad.isPlaying ])
            /\ UNCHANGED decodeMutex

TSeekRefill(t) ==
    /\ pc[t] = "seek_refill"
    /\ ad' = SeekRefill(ad, tl[t].time, tl[t].seekOk, tl[t].was_playing).a
    /\ Return(t)

TUpdateCall(t) ==
    /\ Idle(t)
    /\ ad.hasAudio /\ ad.isPlaying
    /\ Goto(t, "update_lock", NoLocals)
    /\ UNCHANGED <<ad, decodeMutex>>

\* Update entering its refill loop without constructing the lock_guard.
TUpdateLock_NoLockGuard(t) ==
    /\ pc[t] = "update_lock"
    /\ pc' = [ pc EXCEPT ![t] = "update_refill" ]
    /\ UNCHANGED <<ad, tl, decodeMutex>>
    /\ UNCHANGED threadFrame

TUpdateLock(t) == Lock(t, "update_lock", "update_refill")

TUpdateRefill(t) ==
    /\ pc[t] = "update_refill"
    /\ ad' = UpdateRefill(ad, BuffersProcessed(ad))
    /\ Goto(t, "update_restart", [ tl[t] EXCEPT !.state = ad.srcState ])
    /\ UNCHANGED decodeMutex

TUpdateRestart(t) ==
    /\ pc[t] = "update_restart"
    /\ ad' = IF ad.fault THEN ad ELSE UpdateRestart(ad, tl[t].state)
    /\ Return(t)

TSelectCall(t) ==
    \E i \in 1..2, time \in SyncTimes, fail \in { "none", "no_codec" } :
        /\ Idle(t)
        /\ Len(ad.queue) + NUM_BUFFERS <= MaxQueued
        /\ SelectCheck(ad, i) = "go"
        /\ Goto(t, "select_lock", [ NoLocals EXCEPT !.index = i, !.time = time, !.fail = fail ])
        /\ UNCHANGED <<ad, decodeMutex>>

TSelectLock(t) == Lock(t, "select_lock", "select_teardown")

TSelectTeardown(t) ==
    /\ pc[t] = "select_teardown"
    /\ ad' = SelectTeardown(ad, tl[t].index)
    /\ Goto(t, "select_rebuild", [ tl[t] EXCEPT !.was_playing = ad.isPlaying ])
    /\ UNCHANGED decodeMutex

TSelectRebuild(t) ==
    /\ pc[t] = "select_rebuild"
    /\ ad' = SelectRebuild(ad, tl[t].fail).a
    /\ IF SelectRebuild(ad, tl[t].fail).ret
       THEN Goto(t, "select_refill", tl[t]) /\ UNCHANGED decodeMutex
       ELSE Return(t)

TSelectRefill(t) ==
    /\ pc[t] = "select_refill"
    /\ ad' = SelectRefill(ad, tl[t].time, tl[t].seekOk, tl[t].was_playing).a
    /\ Return(t)

\* Play is called without the lock (lines 444-448).
TPlay(t) ==
    /\ Idle(t)
    /\ ad' = Play(ad)
    /\ UNCHANGED <<pc, tl, decodeMutex>>
    /\ UNCHANGED threadFrame

TDeviceConsume ==
    /\ ~ad.fault
    /\ ad.alSource
    /\ ad.srcState = "AL_PLAYING"
    /\ ad.cur < Len(ad.queue)
    /\ ad' = DeviceConsume(ad)
    /\ UNCHANGED <<pc, tl, decodeMutex>>
    /\ UNCHANGED threadFrame

ThreadSpecInit ==
    /\ VideoInit
    /\ ad \in { AudioOpen(NewAudioDecoder, TwoTrackFile, "none").a,
                Play(AudioOpen(NewAudioDecoder, TwoTrackFile, "none").a) }
    /\ acall = NoCall
    /\ played = <<>>
    /\ ThreadsIdle
    /\ PlayerIdle
    /\ EffectsIdle

ThreadSpecNext ==
    \/ \E t \in Threads :
           \/ TSeekCall(t) \/ TSeekLock(t) \/ TSeekDrain(t) \/ TSeekRefill(t)
           \/ TUpdateCall(t) \/ TUpdateLock(t) \/ TUpdateRefill(t) \/ TUpdateRestart(t)
           \/ TSelectCall(t) \/ TSelectLock(t) \/ TSelectTeardown(t) \/ TSelectRebuild(t)
           \/ TSelectRefill(t)
           \/ TPlay(t)
    \/ TDeviceConsume

SpecThreads == ThreadSpecInit /\ [][ThreadSpecNext]_vars

----------------------------------------------------------------------------
(* The MediaPlayer under the user's actions *)

PCall(op, ret) == [ op |-> op, ret |-> ret, arg |-> -1, setup |-> "none" ]

PlayerFiles == { TwoTrackFile, SilentFile, ShortFile, MkFile(<<"video">>, MaxPackets, MaxDelay, {}, TRUE) }

OpenFileEnvs ==
    { OpenFileEnv(v, a, s, x) :
          v \in { SoftwareEnv, OpenEnv("open_input", {}, {}, {}), OpenEnv("open2", HWNames, HWNames, {}) },
          a \in { "none", "openal" }, s \in BOOLEAN, x \in BOOLEAN }

POpenFile ==
    \E f \in PlayerFiles, e \in OpenFileEnvs :
        LET r == OpenFile(mp, f, e)
        IN  /\ ~mp.audioDecoder.fault
            /\ mp' = r.m
            /\ pcall' = PCall("OpenFile", r.ret)
            /\ UNCHANGED <<videoVars, audioVars, threadVars, effectsVars>>

PTogglePlayPause ==
    /\ mp' = TogglePlayPause(mp)
    /\ pcall' = PCall("TogglePlayPause", TRUE)
    /\ UNCHANGED <<videoVars, audioVars, threadVars, effectsVars>>

\* Wall-clock time passes.
PClock ==
    /\ mp.elapsed < MaxClock
    /\ mp' = [ mp EXCEPT !.elapsed = @ + 1 ]
    /\ UNCHANGED <<pcall, videoVars, audioVars, threadVars, effectsVars>>

PlayerSpecInit == VideoInit /\ AudioIdle /\ ThreadsIdle /\ PlayerIdle /\ EffectsIdle

PlayerSpecNext == POpenFile \/ PTogglePlayPause \/ PClock

SpecPlayer == PlayerSpecInit /\ [][PlayerSpecNext]_vars

\* The transport controls on a file with and a file without audio.
TransportFiles ==
    { AudioFile(<<"video", "audio">>, 2, 0, 65536), MkFile(<<"video">>, 2, 0, {}, TRUE) }

TransportOpenEnvs == { OpenFileEnv(SoftwareEnv, "none", TRUE, TRUE) }

SeekEnvs == { SeekEnv(v, TRUE, TRUE) : v \in BOOLEAN }

\* A seek on a source that never played queues the ring once more; the
\* queue is followed up to this length.
MaxRequeued == 4

Running == ~mp.audioDecoder.fault

MOpenFile ==
    \E f \in TransportFiles, e \in TransportOpenEnvs :
        /\ Running
        /\ mp' = OpenFile(mp, f, e).m
        /\ pcall' = PCall("OpenFile", IsOpen(mp'.decoder))
        /\ UNCHANGED <<videoVars, audioVars, threadVars, effectsVars>>

MTogglePlayPause ==
    /\ Running
    /\ mp' = TogglePlayPause(mp)
    /\ pcall' = PCall("TogglePlayPause", TRUE)
    /\ UNCHANGED <<videoVars, audioVars, threadVars, effectsVars>>

\* pcall.ret tells whether the tick decoded a frame.
MOnUpdate ==
    \E swsOk \in BOOLEAN :
        /\ Running
        /\ mp' = OnUpdate(mp, swsOk)
        /\ pcall' = PCall("OnUpdate", mp'.currentFrame.pts # mp.currentFrame.pts)
        /\ UNCHANGED <<videoVars, audioVars, threadVars, effectsVars>>

MStopItem ==
    \E e \in SeekEnvs :
        /\ Running
        /\ mp' = StopItem(mp, e)
        /\ Len(mp'.audioDecoder.queue) <= MaxRequeued
        /\ pcall' = PCall("Stop", TRUE)
        /\ UNCHANGED <<videoVars, audioVars, threadVars, effectsVars>>

MDrawControls ==
    /\ Running
    /\ mp' = Timeline(mp)
    /\ pcall' = PCall("DrawControls", TRUE)
    /\ UNCHANGED <<videoVars, audioVars, threadVars, effectsVars>>

MStepBack ==
    \E e \in SeekEnvs :
        /\ Running
        /\ mp' = StepBack(mp, e)
        /\ Len(mp'.audioDecoder.queue) <= MaxRequeued
        /\ pcall' = PCall("StepBack", TRUE)
        /\ UNCHANGED <<videoVars, audioVars, threadVars, effectsVars>>

MStepForward ==
    \E e \in SeekEnvs :
        /\ Running
        /\ mp' = StepForward(mp, e)
        /\ Len(mp'.audioDecoder.queue) <= MaxRequeued
        /\ pcall' = PCall("StepForward", TRUE)
        /\ UNCHANGED <<videoVars, audioVars, threadVars, effectsVars>>

MSeekBarRelease ==
    \E t \in 0..MaxSeek, e \in SeekEnvs :
        /\ Running
        /\ t <= GetDuration(mp.decoder)
        /\ mp' = SeekBarRelease(mp, t, e)
        /\ Len(mp'.audioDecoder.queue) <= MaxRequeued
        /\ pcall' = PCall("SeekBarRelease", TRUE)
        /\ UNCHANGED <<videoVars, audioVars, threadVars, effectsVars>>

\* The device plays one queued buffer of the player's audio source.
MDeviceConsume ==
    /\ Running
    /\ mp.audioDecoder.alSource
    /\ mp.audioDecoder.srcState = "AL_PLAYING"
    /\ mp.audioDecoder.cur < Len(mp.audioDecoder.queue)
    /\ mp' = [ mp EXCEPT !.audioDecoder = DeviceConsume(@) ]
    /\ UNCHANGED <<pcall, videoVars, audioVars, threadVars, effectsVars>>

TransportSpecNext ==
    MOpenFile \/ MTogglePlayPause \/ PClock \/ MOnUpdate \/ MStopItem \/ MDrawControls
        \/ MStepBack \/ MStepForward \/ MSeekBarRelease \/ MDeviceConsume

SpecTransport == PlayerSpecInit /\ [][TransportSpecNext]_vars

EffectsSpecInit == VideoInit /\ AudioIdle /\ ThreadsIdle /\ PlayerIdle /\ EffectsIdle

EffectsSpecNext ==
    FInit \/ FCleanup \/ FSetColor \/ FSetFilter \/ FSetPostProcess
        \/ FColorReset \/ FFilterReset \/ FPostProcessReset \/ FResetAll
        \/ FOpenFile \/ FSetData \/ FProcessFrame

SpecEffects == EffectsSpecInit /\ [][EffectsSpecNext]_vars

\* Frames of varying size under any interleaving of Init, Cleanup, OpenFile
\* and the filter combo, with the driver free to pick every new handle.
FFramesOpenFile == FOpenFileOn(TextureSizes, Handles)

FFramesProcessFrame == FProcessFrameOn(Handles \cup { NullHandle }, MaxDispatches)

FramesSpecNext ==
    FInit \/ FCleanup \/ FSetFilter \/ FFilterReset
        \/ FFramesOpenFile \/ FSetData \/ FFramesProcessFrame

SpecFrames == EffectsSpecInit /\ [][FramesSpecNext]_vars

VideoSpecInit == VideoInit /\ AudioIdle /\ ThreadsIdle /\ PlayerIdle /\ EffectsIdle

VideoSpecNext == VOpen \/ VClose \/ VDecodeNextFrame \/ VSeek \/ VGetThumbnailAt

SpecVideo == VideoSpecInit /\ [][VideoSpecNext]_vars

----------------------------------------------------------------------------
(* Claims on the VideoDecoder *)

\* C1: GetThumbnailAt calls, interleaved anywhere, do not change what the
\* next DecodeNextFrame returns: dec (which gets them) and ref (which does
\* not) return the same result and the same frame on every DecodeNextFrame.
C1_ThumbnailKeepsNextFrame ==
    vcall.op = "DecodeNextFrame" => (vcall.ret = vcall.refRet /\ out = refOut)

\* C2: on a freshly opened file whose video track holds N frames, decoded in
\* software with a working converter and no rejected packet, the first
\* DecodeNextFrame that returns false is call N+1, whatever the codec delay.
C2_AllFramesDecoded ==
    (/\ vcall.op = "DecodeNextFrame"
     /\ ~vcall.ret
     /\ vcall.run >= 0
     /\ dec.file.reject = {}
     /\ dec.hwAccelType = "None")
        => vcall.run = dec.file.n

\* C7: whenever Open returns false the engine is Closed: IsOpen() is false,
\* width, height, fps, duration and current time are 0, GetHWAccelType() is None.
C7_FailedOpenIsClosed ==
    (vcall.op = "Open" /\ ~vcall.ret)
        => (/\ ~IsOpen(dec)
            /\ dec.width = 0 /\ dec.height = 0 /\ dec.fps = 0
            /\ dec.duration = 0 /\ dec.currentTime = 0
            /\ dec.hwAccelType = "None")

C7_Witness == vcall.op = "Open" /\ ~vcall.ret /\ vcall.wasOpen

\* C9: a Seek that returns false leaves the engine open (if it was), and
\* leaves the current time, the cached conversion context and the frames
\* buffered in the codec as they were.
C9_FailedSeekKeepsState ==
    [][ (vcall'.op = "Seek" /\ ~vcall'.ret)
            => (/\ IsOpen(dec') = IsOpen(dec)
                /\ dec'.currentTime = dec.currentTime
                /\ dec'.swsContext = dec.swsContext
                /\ dec'.swsSourceFormat = dec.swsSourceFormat
                /\ dec'.swsSourceWidth = dec.swsSourceWidth
                /\ dec'.swsSourceHeight = dec.swsSourceHeight
                /\ dec'.codecContext = dec.codecContext
                /\ dec'.codecBuf = dec.codecBuf) ]_vars

C9_Witness ==
    /\ vcall.op = "Seek" /\ ~vcall.ret
    /\ IsOpen(dec) /\ dec.swsContext /\ dec.codecBuf # <<>> /\ dec.currentTime > 0

----------------------------------------------------------------------------
(* Claims on the AudioDecoder *)

NoDuplicates(q) == \A i, j \in 1..Len(q) : i # j => q[i] # q[j]

\* C3: in every reachable state the source has at most NUM_BUFFERS buffers
\* queued and no buffer of the ring is queued twice.
C3_RingBounded ==
    ad.alSource => (Len(ad.queue) <= NUM_BUFFERS /\ NoDuplicates(ad.queue))

CompleteDecodeState(a) == a.codecContext /\ a.swrContext /\ a.frame /\ a.packet

\* C5: whenever SelectAudioStream has returned (true or false) and HasAudio()
\* is true, the engine holds a complete decode state and no null decode
\* object has been used.
C5_SelectLeavesDecodeState ==
    (acall.op = "SelectAudioStream" /\ HasAudio(ad))
        => (CompleteDecodeState(ad) /\ ~ad.fault)

\* C6: SelectAudioStream(i, syncTime) on an open file, with i an audio stream
\* other than the active one and every set-up step succeeding, returns true,
\* makes i the selected stream and leaves IsPlaying() as it was.
C6_SelectSwitchesTrack ==
    [][ (/\ acall'.op = "SelectAudioStream"
         /\ acall'.setup = "none"
         /\ SelectCheck(ad, acall'.arg) = "go")
            => (/\ acall'.ret
                /\ GetSelectedAudioStreamIndex(ad') = acall'.arg
                /\ IsPlaying(ad') = IsPlaying(ad)) ]_vars

C6_Witness ==
    /\ acall.op = "SelectAudioStream" /\ acall.ret /\ acall.setup = "none"
    /\ acall.arg = 2 /\ GetSelectedAudioStreamIndex(ad) = 2
    /\ IsPlaying(ad) /\ ad.srcState = "AL_PLAYING"

\* C10: a Seek that returns false leaves the buffers queued on the device,
\* the device's play state and IsPlaying() as they were.
C10_FailedSeekKeepsPlayback ==
    [][ (acall'.op = "Seek" /\ ~acall'.ret /\ ~ad'.fault)
            => (/\ ad'.queue = ad.queue
                /\ ad'.srcState = ad.srcState
                /\ IsPlaying(ad') = IsPlaying(ad)) ]_vars

\* The code between taking _decodeMutex and releasing it: everything in
\* Seek, SelectAudioStream and Update that touches the codec context, the
\* resampler or the buffer queue.
InDecodeSection(t) ==
    pc[t] \in { "seek_drain", "seek_refill", "update_refill", "update_restart",
                "select_teardown", "select_rebuild", "select_refill" }

\* C4: no two threads are at the same time inside the decode sections of
\* Seek, SelectAudioStream and Update; in particular Update does not refill
\* while SelectAudioStream is between freeing and rebuilding the codec context.
C4_DecodeSectionsExclusive ==
    /\ \A t, u \in Threads : (t # u /\ InDecodeSection(t)) => ~InDecodeSection(u)
    /\ \A t, u \in Threads : pc[t] = "update_refill" => pc[u] # "select_rebuild"

C4_Witness ==
    \E t, u \in Threads :
        /\ pc[t] = "select_rebuild" /\ ~ad.codecContext
        /\ pc[u] = "update_lock"

----------------------------------------------------------------------------
(* Claims on the MediaPlayer *)

\* C8: an OpenFile whose VideoDecoder::Open returns false leaves _hasVideo,
\* the video texture, the main decoder's open state and the loaded audio as
\* they were before the attempt.
C8_FailedOpenFileKeepsPlayback ==
    [][ (pcall'.op = "OpenFile" /\ ~pcall'.ret)
            => (/\ mp'.hasVideo = mp.hasVideo
                /\ mp'.videoTexture = mp.videoTexture
                /\ IsOpen(mp'.decoder) = IsOpen(mp.decoder)
                /\ mp'.audioDecoder = mp.audioDecoder) ]_vars

----------------------------------------------------------------------------
(* Further claims on the VideoDecoder *)

\* C11: a packet the codec rejects on send, or an "again" from the codec, is
\* not surfaced: DecodeNextFrame (converter working) returns false only when
\* the container has no more packets.
C11_AnomalyNotSurfaced ==
    (vcall.op = "DecodeNextFrame" /\ ~vcall.ret /\ vcall.run >= 0)
        => dec.pos >= NumPackets(dec.file)

\* The frames successive DecodeNextFrame calls return, up to the first call
\* that returns false (converter working).
RECURSIVE FramesFrom(_)
FramesFrom(d) ==
    LET r == DecodeNextFrame(d, NoFrame, TRUE)
    IN  IF r.ret THEN <<r.out>> \o FramesFrom(r.d) ELSE <<>>

\* C12: for the same packet stream the frames returned with the hardware
\* path active (their number, width, height, timestamps) are those returned
\* with the software path, whatever the surface transfer does.
C12_HardwareMatchesSoftware ==
    (vcall.op = "Open" /\ vcall.ret)
        => FramesFrom(dec) = FramesFrom(Open(ClosedDecoder, dec.file, SoftwareEnv).d)

\* C13: hardware set-up is never fatal to Open: on a file that opens with
\* software decode, Open returns true for every outcome of the hardware
\* probe (nothing listed, no device creatable, a device attached), from
\* every state of the engine.
C13_HardwareNeverFatal ==
    \A c \in HardwareFiles \X HardwareEnvs :
        Open(dec, c[1], SoftwareEnv).ret => Open(dec, c[1], c[2]).ret

\* Open has returned true with VAAPI listed but not creatable and the CUDA
\* device attached.
C13_Witness ==
    vcall.op = "Open" /\ vcall.ret /\ dec.hwAccelType = "CUDA" /\ dec.hwDeviceCtx

----------------------------------------------------------------------------
(* Claims on the VideoEffects object *)

\* Every field of the three parameter structs has its default-constructed value.
AllAtDefault(e) ==
    /\ e.colorAdjust = DefaultColorAdjustments
    /\ e.filter = DefaultFilterSettings
    /\ e.postProcess = DefaultPostProcessSettings

\* C14: a ProcessFrame made while the three parameter groups are at default,
\* or before Init has succeeded, or with a null texture, records no GPU
\* command and leaves the image, the scratch image and the frame counter
\* unchanged.
C14_IdleProcessFrameDoesNothing ==
    [][ (/\ fcall'.op = "ProcessFrame"
         /\ (AllAtDefault(fx) \/ ~fx.initialized \/ ~fcall'.texture))
            => (/\ fcall'.cmds = <<>>
                /\ tex' = tex
                /\ fx'.stagingImage = fx.stagingImage
                /\ fx'.stagingContent = fx.stagingContent
                /\ fx'.frameCounter = fx.frameCounter) ]_vars

\* ProcessFrame has been called on an initialized object that holds a scratch
\* image from an earlier frame, with every parameter back at its default.
C14_Witness ==
    /\ fcall.op = "ProcessFrame" /\ fcall.texture /\ fcall.cmds = <<>>
    /\ fx.initialized /\ AllAtDefault(fx)
    /\ fx.stagingContent = "copy" /\ fx.frameCounter > 0

\* C15: HasActiveEffects() is true exactly when some field of one of the
\* three parameter structs differs from its default-constructed value.
C15_ActiveIffNotDefault ==
    HasActiveEffects(fx) <=> ~AllAtDefault(fx)

\* C16: Reset() of each parameter struct makes IsDefault() true and every
\* field equal to its default; after ResetAll() HasActiveEffects() is false.
C16_ResetRestoresDefaults ==
    /\ ColorIsDefault(ColorReset(fx.colorAdjust))
    /\ ColorReset(fx.colorAdjust) = DefaultColorAdjustments
    /\ FilterIsDefault(FilterReset(fx.filter))
    /\ FilterReset(fx.filter) = DefaultFilterSettings
    /\ PostProcessIsDefault(PostProcessReset(fx.postProcess))
    /\ PostProcessReset(fx.postProcess) = DefaultPostProcessSettings
    /\ ~HasActiveEffects(ResetAll(fx))
    /\ fcall.op = "ColorReset" => fx.colorAdjust = DefaultColorAdjustments
    /\ fcall.op = "FilterReset" => fx.filter = DefaultFilterSettings
    /\ fcall.op = "PostProcessReset" => fx.postProcess = DefaultPostProcessSettings
    /\ fcall.op = "ResetAll" => (AllAtDefault(fx) /\ ~HasActiveEffects(fx))

\* ResetAll has been called with a field away from its default.
C16_Witness ==
    fcall.op = "ResetAll" /\ fcall.edited > 0 /\ AllAtDefault(fx)

\* C17: Close is idempotent and safe in every state: whatever the engine's
\* state, Close leaves it as the constructor made it (Closed, every getter
\* at its initial value), a second Close finds nothing to release and
\* changes nothing.
C17_CloseIdempotent ==
    /\ Close(dec) = ClosedDecoder
    /\ Released(Close(dec)) = {}
    /\ Close(Close(dec)) = Close(dec)
    /\ vcall.op = "Close" => (dec = ClosedDecoder /\ ~IsOpen(dec))

\* Close has been called on an open engine.
C17_Witness ==
    vcall.op = "Close" /\ vcall.wasOpen /\ ~IsOpen(dec) /\ Released(dec) = {}

----------------------------------------------------------------------------
(* Further claims on the AudioDecoder *)

C19_StreamEndStopsPlayback ==
    Draining(ad) ~> (~IsPlaying(ad) /\ Len(ad.queue) = 0)

\* The bytes of PCM FillBuffer gave buffer b at alBufferData: the chunks it
\* concatenated, each of the file's chunk size.
BufferBytes(a, b) == Len(a.bufData[b]) * a.file.chunk

\* C20: every buffer FillBuffer has handed to the device holds at least
\* 1 and at most BUFFER_SIZE bytes.
C20_BufferWithinCapacity ==
    \A i \in 1..Len(ad.queue) :
        BufferBytes(ad, ad.queue[i]) >= 1 /\ BufferBytes(ad, ad.queue[i]) <= BUFFER_SIZE

\* C21: the stream list is exactly the audio stream indices of the open
\* container, is empty when no container is open, and the name list has
\* the same length.
C21_StreamListMatchesContainer ==
    /\ GetAvailableAudioStreamIndices(ad)
           = (IF ad.formatContext THEN AudioStreamsOf(ad.file) ELSE <<>>)
    /\ Len(GetAvailableAudioStreamNames(ad)) = Len(GetAvailableAudioStreamIndices(ad))

\* C22: IsPlaying() implies HasAudio(); Play, Pause and Stop called with no
\* audio track open change no state, and Close or an Open that returned
\* false leaves IsPlaying() false.
C22_PlayingImpliesAudio ==
    [][ /\ IsPlaying(ad') => HasAudio(ad')
        /\ (acall'.op \in { "Play", "Pause", "Stop" } /\ ~HasAudio(ad)) => ad' = ad
        /\ (acall'.op = "Close" \/ (acall'.op = "Open" /\ ~acall'.ret)) => ~IsPlaying(ad')
      ]_vars

\* Play has been called on an engine with no audio track open.
C22_Witness == acall.op = "Play" /\ ~HasAudio(ad) /\ ~IsPlaying(ad)

\* The container still holds a packet of the selected stream.
AudioLeft(a) ==
    \E i \in a.pos..(NumPackets(a.file) - 1) : PacketStream(a.file, i) = a.audioStreamIndex

\* The device has stopped at the end of its queue while the engine is playing.
Underrun(a) ==
    /\ HasAudio(a) /\ IsPlaying(a) /\ ~a.fault
    /\ a.alSource /\ a.srcState = "AL_STOPPED" /\ Len(a.queue) > 0

\* C23: the Update that follows an underrun with audio left to decode
\* re-queues refilled buffers and leaves the device playing.
C23_UnderrunRestarts ==
    [][ (Underrun(ad) /\ AudioLeft(ad) /\ acall'.op = "Update")
            => (ad'.srcState = "AL_PLAYING" /\ Len(ad'.queue) > 0 /\ ~ad'.fault) ]_vars

\* The chunks held by the buffers of q, in queue order.
RECURSIVE ChunksOf(_, _)
ChunksOf(a, q) == IF q = <<>> THEN <<>> ELSE a.bufData[Head(q)] \o ChunksOf(a, Tail(q))

\* The chunks the device has yet to play.
PendingChunks(a) == ChunksOf(a, SubSeq(a.queue, a.cur + 1, Len(a.queue)))

\* The chunks DecodeAudioPacket returns, in order, when it is called on a
\* until the read position reaches pos.
RECURSIVE Produced(_, _)
Produced(a, pos) ==
    IF a.pos >= pos
    THEN <<>>
    ELSE LET r == DecodeAudioPacket(a)
         IN  IF r.ret THEN <<r.data>> \o Produced(r.a, pos) ELSE <<>>

\* C24: across every step of steady playback, what the device has played
\* followed by what it has pending grows by exactly the chunks the step
\* decoded, in the order DecodeAudioPacket produced them: none is skipped,
\* repeated or out of place.
C24_PlayedInDecodeOrder ==
    [][ (Steady /\ acall'.op = "Update" /\ HasAudio(ad) /\ ~ad'.fault)
            => played' \o PendingChunks(ad')
                   = played \o PendingChunks(ad) \o Produced(ad, ad'.pos) ]_vars

\* The bounding boxes C25 is checked on: the player's, small ones that
\* round a side down to 0 or 1, and one whose RGBA byte count passes 2^32.
ThumbClaimBoxes ==
    { <<160, 90>>, <<2, 2>>, <<1, 1>>, <<3, 1>>, <<1, 5>>, <<7, 2>>, <<46342, 23171>> }

\* C25: a GetThumbnailAt that returns true gives an output inside the
\* bounding box, with one side equal to the box's, whose data holds
\* width * height * 4 bytes.
C25_ThumbnailFitsBox ==
    \A box \in ThumbClaimBoxes, t \in 0..MaxSeek, e \in ThumbEnvs :
        LET r == GetThumbnailAt(dec, NoFrame, t, box[1], box[2], e)
        IN  r.ret => /\ 1 <= r.out.width /\ r.out.width <= box[1]
                     /\ 1 <= r.out.height /\ r.out.height <= box[2]
                     /\ r.out.width = box[1] \/ r.out.height = box[2]
                     /\ r.out.size % 4 = 0
                     /\ r.out.size \div 4 = r.out.width * r.out.height

\* The position of the dispatch in a command list, 0 when there is none.
DispatchAt(cmds) ==
    IF \E k \in 1..Len(cmds) : cmds[k].cmd = "dispatch"
    THEN CHOOSE k \in 1..Len(cmds) : cmds[k].cmd = "dispatch"
    ELSE 0

CommandNames(cmds) == [ k \in 1..Len(cmds) |-> cmds[k].cmd ]

\* C26: every ProcessFrame call that does GPU work records, in this order,
\* the barrier taking the target to transfer-source and the scratch image to
\* transfer-destination, the copy of the target into the scratch image, the
\* barrier taking both to the general layout, the compute dispatch and the
\* barrier taking the target back to shader-read-only; the target leaves the
\* call in the layout it entered with, and the dispatch reads only the
\* scratch image and writes only the target.
C26_FrameCommandOrder ==
    [][ (fcall'.op = "ProcessFrame" /\ fcall'.cmds # <<>>)
            => LET cmds == fcall'.cmds
                   d == DispatchAt(cmds)
               IN  /\ CommandNames(cmds) = << "barrier", "copy", "barrier", "bindPipeline",
                                              "bindDescriptorSets", "push", "dispatch",
                                              "barrier" >>
                   /\ cmds[1].target = << tex.layout, "TRANSFER_SRC" >>
                   /\ cmds[1].scratch[2] = "TRANSFER_DST"
                   /\ cmds[2].target = << "read", LayoutAfter(SubSeq(cmds, 1, 1), "target", tex.layout) >>
                   /\ cmds[2].scratch = << "write", LayoutAfter(SubSeq(cmds, 1, 1), "scratch", "UNDEFINED") >>
                   /\ LayoutAfter(SubSeq(cmds, 1, d - 1), "target", tex.layout) = "GENERAL"
                   /\ LayoutAfter(SubSeq(cmds, 1, d - 1), "scratch", "UNDEFINED") = "GENERAL"
                   /\ cmds[d].scratch = << "read", "GENERAL" >>
                   /\ cmds[d].target = << "write", "GENERAL" >>
                   /\ cmds[8].target = << "GENERAL", "SHADER_READ_ONLY" >>
                   /\ tex'.layout = tex.layout
                   /\ tex.layout = "SHADER_READ_ONLY" ]_vars

\* C27: at every compute dispatch the scratch image exists with the width and
\* height of the target, and the descriptor set binds the current scratch
\* view as the source and the current target view as the destination.
C27_DispatchBindsCurrentViews ==
    [][ (fcall'.op = "ProcessFrame" /\ DispatchAt(fcall'.cmds) # 0)
            => /\ fx'.stagingImage
               /\ fx'.stagingWidth = tex'.width /\ fx'.stagingHeight = tex'.height
               /\ fx'.srcBinding = "scratch"
               /\ fx'.dstBinding = "target" ]_vars

\* C28: when Seek(t) returns true, GetCurrentTime() is t, the cached
\* conversion context is discarded, so that the next DecodeNextFrame converts
\* a frame only with a context it builds itself, and Seek has read no packet,
\* left no frame in the codec and written no frame output.
C28_SeekMovesCursorOnly ==
    [][ \A t \in 0..MaxSeek :
          (/\ vcall'.op = "Seek" /\ vcall'.ret
           /\ Seek(dec, t, TRUE).ret /\ dec' = Seek(dec, t, TRUE).d)
            => (/\ GetCurrentTime(dec') = t
                /\ ~dec'.swsContext
                /\ \A swsOk \in BOOLEAN :
                      LET n == DecodeNextFrame(dec', NoFrame, swsOk)
                      IN  n.ret => (swsOk /\ n.d.swsContext)
                /\ dec'.pos = SeekTarget(dec.file, dec.videoStreamIndex, t)
                /\ dec'.codecBuf = <<>>
                /\ out' = NoFrame
                /\ IsOpen(dec')) ]_vars

\* A Seek to a later time has returned true on a decoder that is open.
C28_Witness ==
    /\ vcall.op = "Seek" /\ vcall.ret
    /\ IsOpen(dec) /\ GetCurrentTime(dec) = MaxSeek /\ ~dec.swsContext

\* C29: a tick's UpdateVideo decodes at most one video frame, and decodes
\* only when playback is on and the media time ElapsedTime() - _videoStartTime
\* has reached the timestamp of the displayed frame plus 1/fps.
C29_OneFrameWhenDue ==
    [][ pcall'.op = "OnUpdate"
            => /\ \/ mp'.decoder = mp.decoder /\ mp'.currentFrame = mp.currentFrame
                  \/ \E swsOk \in BOOLEAN :
                        /\ mp'.decoder = DecodeNextFrame(mp.decoder, mp.currentFrame, swsOk).d
                        /\ mp'.currentFrame = DecodeNextFrame(mp.decoder, mp.currentFrame, swsOk).out
               /\ (mp'.decoder # mp.decoder \/ mp'.currentFrame # mp.currentFrame)
                    => (/\ mp.isPlaying /\ mp.hasVideo
                        /\ mp.elapsed - mp.videoStartTime >= mp.currentFrame.timestamp + 1) ]_vars

\* A tick of a playing video has decoded the frame that was due.
C29_Witness ==
    /\ pcall.op = "OnUpdate" /\ pcall.ret
    /\ mp.isPlaying /\ mp.currentFrame.pts > 0
    /\ mp.elapsed - mp.videoStartTime >= mp.currentFrame.timestamp

\* C30: on a file with audio, whenever MediaPlayer::_isPlaying is false the
\* audio engine's IsPlaying() is false too.
C30_TransportInStep ==
    (mp.hasVideo /\ HasAudio(mp.audioDecoder) /\ ~mp.audioDecoder.fault /\ ~mp.isPlaying)
        => ~IsPlaying(mp.audioDecoder)

====
